---- MODULE Spec2Model ----
(***************************************************************************)
(* A model of quickset's sync coordinator (src/src/sync/manager.rs): the   *)
(* SyncManager with its status map, running flag and sync_count, the       *)
(* background worker thread, manual sync triggers, and the database        *)
(* RwLock they share with HTTP readers.  Durations (last_duration_ms,       *)
(* duration_ms) are left out: they are readings of elapsed time.  Table    *)
(* and Database are modelled from the specification of the table engine.   *)
(***************************************************************************)
EXTENDS Integers, Sequences, FiniteSets, TLC

(***************************************************************************)
(* Bounds of the model.                                                    *)
(***************************************************************************)
\* longest row list one fetch_table returns
MaxRows == 2
\* how many sync_all calls (background and manual together) may start
MaxSyncs == 2
\* how many HTTP table requests may be received
MaxRequests == 3
\* the last instant the clock reaches, in ticks
MaxNow == 3
\* the ticks of the clock in a second
TicksPerSec == 2

\* threads: background worker slots, HTTP sync-trigger handlers, HTTP readers
Workers == {"w1", "w2"}
Triggers == {"h1"}
Readers == {"r1"}
SyncThreads == Workers \cup Triggers
\* threads: one per HTTP connection carrying a table or status request
Handlers == {"a1", "a2"}
NoThread == "nobody"

(***************************************************************************)
(* Values, columns, tables, the database (crate::storage, crate::table).   *)
(***************************************************************************)
VInt(n) == [tag |-> "Int", v |-> n]
VStr(s) == [tag |-> "String", v |-> s]
VNull == [tag |-> "Null", v |-> 0]

\* type_matches(value, col_type): Null, or the exact variant
type_matches(value, col_type) == value.tag = "Null" \/ value.tag = col_type

Column(name, col_type) == [name |-> name, col_type |-> col_type]

\* a fresh table: no rows, the RowId counter at 1 (0 is "unassigned")
NewTable(columns) == [columns |-> columns, rows |-> <<>>, next_id |-> 1]

\* Table::insert accepts a row of the right arity whose values match the types
InsertAccepts(tbl, values) ==
    /\ Len(values) = Len(tbl.columns)
    /\ \A i \in 1..Len(values) : type_matches(values[i], tbl.columns[i].col_type)

\* Table::insert on an accepted row: next RowId, appended after the others
InsertRow(tbl, values) ==
    [tbl EXCEPT !.rows = Append(@, [id |-> tbl.next_id, values |-> values]),
                !.next_id = @ + 1]

\* Table::insert: a rejected row changes nothing and consumes no RowId
TableInsert(tbl, values) ==
    IF InsertAccepts(tbl, values) THEN InsertRow(tbl, values) ELSE tbl

\* Database::drop_table: removes the name when present
DropTable(d, name) == [n \in (DOMAIN d) \ {name} |-> d[n]]

\* Database::create_table_with_capacity fails on a duplicate name
CreateFails(d, name) == name \in DOMAIN d

\* Database::create_table_with_capacity on success (capacity is only a hint)
CreateTable(d, name, columns) == (name :> NewTable(columns)) @@ d

\* whether the table holds a live row with this RowId
HasRow(tbl, id) == \E i \in 1..Len(tbl.rows) : tbl.rows[i].id = id

\* the live row with this RowId
RowOf(tbl, id) == tbl.rows[CHOOSE i \in 1..Len(tbl.rows) : tbl.rows[i].id = id]

\* Table::delete: the row is gone, its RowId is not given out again
TableDelete(tbl, id) ==
    LET others(r) == r.id # id
    IN [tbl EXCEPT !.rows = SelectSeq(@, others)]

\* Table::update: Err on a row insert would reject, Ok(false) on an absent
\* RowId, Ok(true) otherwise (the text of Err is the table's; the handlers'
\* responses below carry "update rejected" in its place)
UpdateResult(tbl, id, values) ==
    IF ~InsertAccepts(tbl, values) THEN "Err"
    ELSE IF ~HasRow(tbl, id) THEN "Ok(false)" ELSE "Ok(true)"

TableUpdate(tbl, id, values) ==
    IF UpdateResult(tbl, id, values) = "Ok(true)"
    THEN [tbl EXCEPT !.rows = [i \in 1..Len(@) |->
                                 IF @[i].id = id THEN [id |-> id, values |-> values]
                                 ELSE @[i]]]
    ELSE tbl

\* Table::get_many: the found rows, in the order of the ids given
GetMany(tbl, ids) ==
    LET found(id) == HasRow(tbl, id)
        live == SelectSeq(ids, found)
    IN [j \in 1..Len(live) |-> RowOf(tbl, live[j])]

\* Table::column_index: the column's position, 0 when there is none
column_index(tbl, name) ==
    IF \E i \in 1..Len(tbl.columns) : tbl.columns[i].name = name
    THEN CHOOSE i \in 1..Len(tbl.columns) : tbl.columns[i].name = name
    ELSE 0


\* Option: None, or Some(x)
None == <<>>
Some(x) == <<x>>

\* Result: Ok(value) or Err(error)
Ok(value) == <<"Ok", value>>
Err(error) == <<"Err", error>>
IsOk(result) == result[1] = "Ok"

\* the letters str::to_lowercase changes, and what it makes of them
Letters ==
    [upper |-> <<
                  "A", "B", "C", "D", "E", "F", "G", "H", "I", "J", "K",
                  "L", "M", "N", "O", "P", "Q", "R", "S", "T", "U", "V",
                  "W", "X", "Y", "Z" >>,
     lower |-> <<
                  "a", "b", "c", "d", "e", "f", "g", "h", "i", "j", "k",
                  "l", "m", "n", "o", "p", "q", "r", "s", "t", "u", "v",
                  "w", "x", "y", "z" >>]

\* str::to_lowercase
to_lowercase(s) ==
    [i \in 1..Len(s) |->
        IF \E k \in 1..Len(Letters.upper) : Letters.upper[k] = s[i]
        THEN Letters.lower[CHOOSE k \in 1..Len(Letters.upper) : Letters.upper[k] = s[i]]
        ELSE s[i]]

\* the characters of the strings the tables hold and the searches ask for
Chars(s) ==
    CASE s = "" -> <<>>
      [] s = "a" -> <<"a">>
      [] s = "b" -> <<"b">>
      [] s = "c" -> <<"c">>
      [] s = "z" -> <<"z">>
      [] s = "A" -> <<"A">>
      [] s = "Ab" -> <<"A", "b">>
      [] s = "b a" -> <<"b", " ", "a">>
      [] s = "A b" -> <<"A", " ", "b">>

\* the characters the strings are made of, in byte order
ByteOrder == <<" ">> \o Letters.upper \o Letters.lower

Ord(c) == CHOOSE i \in 1..Len(ByteOrder) : ByteOrder[i] = c

\* str::cmp is Less: the first differing byte decides, a proper prefix is less
StrLess(x, y) ==
    \E k \in 0..Len(x) :
        /\ k <= Len(y)
        /\ SubSeq(x, 1, k) = SubSeq(y, 1, k)
        /\ IF k = Len(x) THEN k < Len(y)
           ELSE k < Len(y) /\ Ord(x[k + 1]) < Ord(y[k + 1])

\* str::starts_with
starts_with(s, p) == Len(p) <= Len(s) /\ SubSeq(s, 1, Len(p)) = p

\* str::contains
contains(s, q) == \E i \in 0..(Len(s) - Len(q)) : SubSeq(s, i + 1, i + Len(q)) = q

\* char::is_alphanumeric, over the characters of ByteOrder
is_alphanumeric(c) == c # " "

\* the tokens of a string: the maximal runs of alphanumeric characters of
\* its lowercase form
tokenize(s) ==
    LET l == to_lowercase(s)
        run(r) == /\ r[1] <= r[2]
                  /\ \A k \in r[1]..r[2] : is_alphanumeric(l[k])
                  /\ r[1] = 1 \/ ~is_alphanumeric(l[r[1] - 1])
                  /\ r[2] = Len(l) \/ ~is_alphanumeric(l[r[2] + 1])
    IN { SubSeq(l, r[1], r[2]) : r \in { q \in (1..Len(l)) \X (1..Len(l)) : run(q) } }

\* the live rows of a table
LiveRows(tbl) == { tbl.rows[i] : i \in 1..Len(tbl.rows) }

\* the RowIds of the rows hits, a row after the rows that are before it
Ordered(hits, before(_, _)) ==
    [j \in 1..Cardinality(hits) |->
        (CHOOSE r \in hits : Cardinality({ x \in hits : before(x, r) }) = j - 1).id]

\* Table::search with SearchType::Exact: the RowIds of the rows whose value
\* in the column equals v, ascending; Null matches nothing
SearchExact(tbl, col, v) ==
    LET hit(r) == v.tag # "Null" /\ r.values[col] = v
        hits == SelectSeq(tbl.rows, hit)
    IN [j \in 1..Len(hits) |-> hits[j].id]

\* Table::search with SearchType::Prefix: the rows whose String value starts
\* with p, ascending by value, then by RowId
SearchPrefix(tbl, col, p) ==
    LET key(r) == Chars(r.values[col].v)
        hits == { r \in LiveRows(tbl) :
                    r.values[col].tag = "String" /\ starts_with(key(r), Chars(p)) }
        before(x, y) == StrLess(key(x), key(y)) \/ (key(x) = key(y) /\ x.id < y.id)
    IN Ordered(hits, before)

\* Table::search with SearchType::Range: the rows whose Int value lies in
\* [min, max], ascending by value, then by RowId.  The bounds are the
\* request's options: handle_search puts i64::MIN and i64::MAX for an absent
\* one, which no value lies beyond
SearchRange(tbl, col, min, max) ==
    LET key(r) == r.values[col].v
        hits == { r \in LiveRows(tbl) :
                    /\ r.values[col].tag = "Int"
                    /\ min = None \/ min[1] <= key(r)
                    /\ max = None \/ key(r) <= max[1] }
        before(x, y) == key(x) < key(y) \/ (key(x) = key(y) /\ x.id < y.id)
    IN Ordered(hits, before)

\* Table::search with SearchType::FullText: the rows whose String value has
\* every token of q, ascending by RowId
SearchFullText(tbl, col, q) ==
    LET hit(r) == /\ r.values[col].tag = "String"
                  /\ tokenize(Chars(q)) \subseteq tokenize(Chars(r.values[col].v))
        hits == SelectSeq(tbl.rows, hit)
    IN [j \in 1..Len(hits) |-> hits[j].id]

\* Table::search with SearchType::Contains: the rows whose String value has
\* q as a substring, letter case aside, ascending by RowId
SearchContains(tbl, col, q) ==
    LET hit(r) == /\ r.values[col].tag = "String"
                  /\ contains(to_lowercase(Chars(r.values[col].v)), to_lowercase(Chars(q)))
        hits == SelectSeq(tbl.rows, hit)
    IN [j \in 1..Len(hits) |-> hits[j].id]

\* Table::search: the RowIds the SearchType st matches in the column
TableSearch(tbl, col, st) ==
    CASE st[1] = "Exact" -> SearchExact(tbl, col, st[2])
      [] st[1] = "Prefix" -> SearchPrefix(tbl, col, st[2])
      [] st[1] = "FullText" -> SearchFullText(tbl, col, st[2])
      [] st[1] = "Range" -> SearchRange(tbl, col, st[2], st[3])
      [] st[1] = "Contains" -> SearchContains(tbl, col, st[2])

\* Database::table_names
table_names(d) == DOMAIN d

\* Database::stats
stats(d) ==
    { [name |-> n, row_count |-> Len(d[n].rows), column_count |-> Len(d[n].columns)] :
        n \in DOMAIN d }

(***************************************************************************)
(* Sync descriptors and configuration (sync/source.rs, sync/manager.rs).   *)
(***************************************************************************)
ColumnMapping(source_name, target_name, col_type) ==
    [source_name |-> source_name, target_name |-> target_name, col_type |-> col_type]

SyncTable(source_table, target_table, columns) ==
    [source_table |-> source_table, target_table |-> target_table,
     columns |-> columns, query_override |-> "none"]

UsersTable ==
    SyncTable("src_users", "users",
              <<ColumnMapping("uid", "id", "Int"), ColumnMapping("uname", "name", "String")>>)

PairsTable ==
    SyncTable("src_pairs", "pairs",
              <<ColumnMapping("k", "k", "Int"), ColumnMapping("v", "v", "Int")>>)

ConfigTables == <<UsersTable, PairsTable>>

\* the rows a source may return: well-typed, null-carrying, mistyped, short
RowPool ==
    { <<VInt(1), VStr("a")>>, <<VInt(2), VNull>>, <<VStr("a")>> }

RowLists == UNION { [1..n -> RowPool] : n \in 0..MaxRows }

\* the fetch outcomes used where several syncs run side by side
BriefLists == { <<>>, << <<VInt(1), VStr("a")>>, <<VInt(2), VNull>> >> }

\* the one fetch outcome used where only the course of a sync matters
OneRowLists == { << <<VInt(1), VStr("a")>> >> }

\* SourceError and its Display
SourceErrors == { [kind |-> "Connection", msg |-> "refused"],
                  [kind |-> "Parse", msg |-> "column count mismatch"] }

BriefErrors == { [kind |-> "Connection", msg |-> "refused"] }

ErrorToString(e) ==
    CASE e.kind = "Connection" -> "connection error: " \o e.msg
      [] e.kind = "Query" -> "query error: " \o e.msg
      [] e.kind = "Parse" -> "parse error: " \o e.msg
      [] OTHER -> "config error: " \o e.msg

NoError == "none"

\* SyncTriggerRequest.table: None (sync all) or a table name; NoRequest
\* while the handler has no request
NoName == "all"
NoRequest == "no request"
TriggerNames == {NoName, "users"}
NoInstant == 0

(***************************************************************************)
(* HTTP table requests and responses (http.rs).                            *)
(***************************************************************************)
NoValue == [tag |-> "None", v |-> 0]
NoNum == -1

\* a request body: the operation and the fields its handler reads
Req(op, table) ==
    [op |-> op, table |-> table, rows |-> <<>>, ids |-> <<>>, id |-> 0,
     values |-> <<>>, column |-> "", search_type |-> "", value |-> NoValue,
     offset |-> NoNum, limit |-> NoNum, columns |-> <<>>,
     prefix |-> None, query |-> None, min |-> None, max |-> None]

NoReq == Req("none", "")

InsertReq(table, rows) == [Req("insert", table) EXCEPT !.rows = rows]
DeleteReq(table, ids) == [Req("delete", table) EXCEPT !.ids = ids]
GetReq(table, ids) == [Req("get", table) EXCEPT !.ids = ids]
UpdateReq(table, id, values) == [Req("update", table) EXCEPT !.id = id, !.values = values]
SearchReq(table, column, search_type, value) ==
    [Req("search", table) EXCEPT !.column = column, !.search_type = search_type,
                                 !.value = value]
PrefixReq(table, column, prefix) ==
    [SearchReq(table, column, "prefix", NoValue) EXCEPT !.prefix = prefix]
QueryReq(table, column, search_type, query) ==
    [SearchReq(table, column, search_type, NoValue) EXCEPT !.query = query]
RangeReq(table, column, min, max) ==
    [SearchReq(table, column, "range", NoValue) EXCEPT !.min = min, !.max = max]
DropReq(table) == Req("drop_table", table)

\* http.rs:530-565: the SearchType the request asks for, or the error that
\* ends it
SearchTypeOf(req) ==
    CASE req.search_type = "exact" ->
            IF req.value = NoValue THEN Err("value required for exact search")
            ELSE Ok(<<"Exact", req.value>>)
      [] req.search_type = "prefix" ->
            IF req.prefix = None THEN Err("prefix required")
            ELSE Ok(<<"Prefix", req.prefix[1]>>)
      [] req.search_type = "fulltext" ->
            IF req.query = None THEN Err("query required")
            ELSE Ok(<<"FullText", req.query[1]>>)
      [] req.search_type = "range" -> Ok(<<"Range", req.min, req.max>>)
      [] req.search_type = "contains" ->
            IF req.query = None THEN Err("query required")
            ELSE Ok(<<"Contains", req.query[1]>>)
      [] OTHER -> Err("invalid search type")

\* a handler's locals
NoAcc == [k |-> 0, out |-> <<>>, n |-> 0]

\* SyncStatusResponse when no sync manager answers
NoSync == [tables |-> {}, running |-> FALSE, total_syncs |-> 0]

\* a response: the status code and the fields of ApiResponse the handlers fill
Resp(code, error) ==
    [code |-> code, error |-> error, data |-> "", ids |-> <<>>, count |-> 0,
     rows |-> <<>>, total |-> 0, tables |-> {}, sync |-> NoSync]

NoResp == Resp(0, "")

\* the table the HTTP requests work on, as handle_create_table made it
ItemsColumns == <<Column("k", "Int"), Column("s", "String")>>
ItemsDb == "items" :> NewTable(ItemsColumns)

\* the requests of the table scenarios: a batch with a rejected row in the
\* middle, a delete naming a row twice, an update, a search, a get, stats
TableRequests ==
    { InsertReq("items", << <<VInt(1), VStr("a")>>, <<VStr("a")>>, <<VInt(1), VNull>> >>),
      DeleteReq("items", <<1, 1>>),
      UpdateReq("items", 2, <<VInt(2), VStr("b")>>),
      SearchReq("items", "k", "exact", VInt(1)),
      DropReq("items"),
      GetReq("items", <<2, 1>>),
      Req("stats", ""),
      Req("list_tables", ""),
      Req("sync_status", "") }

\* the requests that end in each handler's error exits, with one of every
\* other operation
ExitRequests ==
    { InsertReq("ghost", << <<VInt(1), VStr("a")>> >>),
      InsertReq("items", << <<VInt(1), VStr("a")>> >>),
      DeleteReq("ghost", <<1>>),
      DeleteReq("items", <<1>>),
      UpdateReq("ghost", 1, <<VInt(2), VStr("b")>>),
      UpdateReq("items", 9, <<VInt(2), VStr("b")>>),
      UpdateReq("items", 1, <<VStr("b")>>),
      SearchReq("ghost", "k", "exact", VInt(1)),
      SearchReq("items", "nope", "exact", VInt(1)),
      SearchReq("items", "k", "exact", NoValue),
      SearchReq("items", "k", "fuzzy", VInt(1)),
      SearchReq("items", "k", "exact", VInt(1)),
      PrefixReq("items", "s", None),
      PrefixReq("items", "s", Some("a")),
      QueryReq("items", "s", "fulltext", None),
      QueryReq("items", "s", "contains", None),
      QueryReq("items", "s", "contains", Some("A")),
      RangeReq("items", "k", None, None),
      DropReq("ghost"),
      DropReq("items"),
      GetReq("ghost", <<1>>),
      GetReq("items", <<1>>),
      Req("stats", ""),
      Req("list_tables", ""),
      Req("sync_status", "") }

\* no function has been called yet
NoCall == [fn |-> "none", args |-> <<>>, result |-> <<>>]

VARIABLES
    config,      \* SyncConfig: interval_secs, tables, clear_before_sync
    db,          \* Database: table name -> table
    dbWriter,    \* the thread holding the database RwLock for writing
    dbReaders,   \* the threads holding the database RwLock for reading
    status,      \* SyncManager.status: target table -> SyncStatus
    running,     \* SyncManager.running
    sync_count,  \* SyncManager.sync_count
    now,         \* the monotonic clock read by Instant::now()
    pc,          \* where each sync thread is
    idx,         \* the table of config.tables a thread's sync_all is at
    fetched,     \* the rows a thread's fetch_table returned
    pos,         \* how many of them its insert loop has taken
    inserted,    \* a thread's count of accepted rows
    results,     \* the SyncResults a thread's sync_all has collected
    started,     \* the number of sync_all calls started
    lastStart,   \* what the last start_background_sync call logged
    stopped,     \* per worker: stop() was called since its last flag check
    interrupted, \* per thread: stop() was called during its current sync_all
    stops,       \* how many stop() calls in a row were the last calls (up to 2)
    request,     \* per trigger handler: the table its request names
    connected,   \* ClickHouseSource.connected
    disconnects, \* how many disconnect() calls in a row were the last (up to 2)
    hpc,         \* where each HTTP handler thread is
    hreq,        \* the request it is handling
    hacc,        \* its locals: batch position, collected ids, count
    hresp,       \* the response it has built
    snap,        \* the database as it was when the handler took its lock
    issued,      \* the RowIds successful HTTP inserts returned, in order
    served,      \* the number of requests received
    call,        \* the last call of a function without state: name, arguments, result
    statusLock,  \* the threads holding the RwLock around SyncManager.status
    sync         \* HttpServer.sync: whether the server has a SyncManager

vars == <<config, db, dbWriter, dbReaders, status, running, sync_count, now,
          pc, idx, fetched, pos, inserted, results, started, lastStart, stopped,
          interrupted, stops, request, connected, disconnects,
          hpc, hreq, hacc, hresp, snap, issued, served, call, statusLock, sync>>

\* the source binding's own state
sourceVars == <<connected, disconnects>>

\* the HTTP table handlers' own state
httpVars == <<hpc, hreq, hacc, hresp, snap, issued, served>>

\* the state no step of the sync manager writes
otherVars == <<sourceVars, httpVars, call, statusLock, sync>>

\* what a step of sync_table, of a reader or of the worker loop leaves alone
outerVars == <<otherVars, request, stops>>

\* the sync manager's state and its threads'
syncVars == <<config, status, running, sync_count, now, pc, idx, fetched, pos, inserted,
              results, started, lastStart, stopped, interrupted, stops, request>>

(***************************************************************************)
(* SyncStatus, SyncResult and the status helpers of SyncManager.           *)
(***************************************************************************)
SyncStatus(table) ==
    [table |-> table, last_sync |-> NoInstant, last_row_count |-> 0,
     error |-> NoError, syncing |-> FALSE]

SyncResult(table, success, rows_synced, error) ==
    [table |-> table, success |-> success, rows_synced |-> rows_synced, error |-> error]

\* SyncManager::new: one status entry per configured target table
NewStatus(tables) ==
    [n \in { tables[i].target_table : i \in 1..Len(tables) } |-> SyncStatus(n)]

\* a faulty mark that sets the flag and leaves the earlier error standing
MarkSyncingKeepingError(st, target) ==
    IF target \in DOMAIN st
    THEN [st EXCEPT ![target] = [@ EXCEPT !.syncing = TRUE]]
    ELSE st


\* sync_table, "mark as syncing": only a target the map holds is touched
MarkSyncing(st, target) ==
    IF target \in DOMAIN st
    THEN [st EXCEPT ![target] = [@ EXCEPT !.syncing = TRUE, !.error = NoError]]
    ELSE st

\* a faulty update_status that records a table it has no entry for
update_status_inserting(st, table, rows, instant, error) ==
    [n \in DOMAIN st \cup {table} |->
        IF n = table
        THEN [table |-> n, last_sync |-> instant, last_row_count |-> rows,
              error |-> error, syncing |-> FALSE]
        ELSE st[n]]


\* a faulty update_status that leaves the syncing flag as it was
update_status_keep_syncing(st, table, rows, instant, error) ==
    IF table \in DOMAIN st
    THEN [st EXCEPT ![table] = [@ EXCEPT !.last_sync = instant,
                                         !.last_row_count = rows,
                                         !.error = error]]
    ELSE st

\* SyncManager::update_status
update_status(st, table, rows, instant, error) ==
    IF table \in DOMAIN st
    THEN [st EXCEPT ![table] = [@ EXCEPT !.last_sync = instant,
                                         !.last_row_count = rows,
                                         !.error = error,
                                         !.syncing = FALSE]]
    ELSE st

\* status.write() (manager.rs:118, 288) blocks while the lock is held; the
\* guard is dropped at the end of the block that took it
StatusWritable == statusLock = {}

\* the descriptor thread t's sync_table is working on
CurTable(t) == config.tables[idx[t]]
Target(t) == CurTable(t).target_table

\* a faulty column list: named after the source columns
TargetColumnsBySource(table) ==
    [i \in 1..Len(table.columns) |->
        Column(table.columns[i].source_name, table.columns[i].col_type)]

\* the columns sync_table creates the target with: the mapping's target
\* names and types, in declared order
TargetColumns(table) ==
    [i \in 1..Len(table.columns) |->
        Column(table.columns[i].target_name, table.columns[i].col_type)]

IntervalChoices == {0, 1}

EmptyDb == [n \in {} |-> NewTable(<<>>)]

\* the fields after construction over a database d, with interval i and
\* clear flag c. m: a SyncManager exists; s: start_background_sync has been
\* called on it once (manager.rs:225-255: with interval 0 it only logs,
\* otherwise it sets running and spawns the worker, which is about to call
\* sync_all)
InitFields(i, c, d, m, s) ==
    /\ config = [enabled |-> i > 0, interval_secs |-> i, tables |-> ConfigTables,
                 clear_before_sync |-> c]
    /\ db = d
    /\ dbWriter = NoThread
    /\ dbReaders = {}
    /\ status = NewStatus(config.tables)
    /\ running = (s /\ i > 0)
    /\ sync_count = 0
    /\ now = 1
    /\ pc = [t \in SyncThreads |-> IF s /\ i > 0 /\ t = "w1" THEN "begin" ELSE "idle"]
    /\ idx = [t \in SyncThreads |-> 0]
    /\ fetched = [t \in SyncThreads |-> <<>>]
    /\ pos = [t \in SyncThreads |-> 0]
    /\ inserted = [t \in SyncThreads |-> 0]
    /\ results = [t \in SyncThreads |-> <<>>]
    /\ started = 0
    /\ lastStart = IF ~s THEN "never" ELSE IF i = 0 THEN "disabled" ELSE "starting"
    /\ stopped = [w \in Workers |-> FALSE]
    /\ interrupted = [t \in SyncThreads |-> FALSE]
    /\ stops = 0
    /\ request = [h \in Triggers |-> NoRequest]
    /\ connected = FALSE
    /\ disconnects = 0
    /\ hpc = [a \in Handlers |-> "idle"]
    /\ hreq = [a \in Handlers |-> NoReq]
    /\ hacc = [a \in Handlers |-> NoAcc]
    /\ hresp = [a \in Handlers |-> NoResp]
    /\ snap = [a \in Handlers |-> EmptyDb]
    /\ issued = <<>>
    /\ served = 0
    /\ call = NoCall
    /\ statusLock = {}
    /\ sync = m

\* SyncManager::new in the hands of its owner: nothing is started until the
\* owner calls start_background_sync
InitManager(i, c, d) == InitFields(i, c, d, TRUE, FALSE)

\* HttpServer::new over a database d. With sync configured (m) the
\* constructor builds the SyncManager and calls start_background_sync
\* before it returns (http.rs:115-120); without it sync is None
InitServer(i, c, d, m) == InitFields(i, c, d, m, m)

\* HttpServer::new with sync configured
InitWith(i, c, d) == InitServer(i, c, d, TRUE)

\* the server with the defaults of SyncConfig (clear_before_sync = true) and
\* any interval
Init == \E i \in IntervalChoices : InitWith(i, TRUE, EmptyDb)

\* a SyncManager of its own with the same defaults, not yet started
InitOwned == \E i \in IntervalChoices : InitManager(i, TRUE, EmptyDb)

(***************************************************************************)
(* sync_all and sync_table, one step per access to shared state.           *)
(***************************************************************************)
\* sync_all begins: the first configured table, an empty result vector
BeginSyncAll(t) ==
    /\ started < MaxSyncs
    /\ started' = started + 1
    /\ idx' = [idx EXCEPT ![t] = 1]
    /\ results' = [results EXCEPT ![t] = <<>>]
    /\ fetched' = [fetched EXCEPT ![t] = <<>>]
    /\ pos' = [pos EXCEPT ![t] = 0]
    /\ inserted' = [inserted EXCEPT ![t] = 0]
    /\ interrupted' = [interrupted EXCEPT ![t] = FALSE]
    /\ pc' = [pc EXCEPT ![t] = "mark"]

\* where a thread goes when its sync_all has collected the last result
AfterSyncAll(t) == IF t \in Workers THEN "loop" ELSE "respond"

\* a faulty iteration that stops at the first failed table
NextTableUnlessFailed(t, r) == idx[t] < Len(config.tables) /\ r.success

\* a faulty iteration that gives up once stop() has cleared the flag
NextTableWhileRunning(t, r) == idx[t] < Len(config.tables) /\ running

\* sync_all's iteration: the next configured table, whatever result r was
NextTable(t, r) == idx[t] < Len(config.tables)

\* a faulty return that ends the worker thread when its last table failed
ReturnEndingLoopOnFailure(t, r) ==
    /\ results' = [results EXCEPT ![t] = Append(@, r)]
    /\ fetched' = [fetched EXCEPT ![t] = <<>>]
    /\ pos' = [pos EXCEPT ![t] = 0]
    /\ inserted' = [inserted EXCEPT ![t] = 0]
    /\ IF NextTable(t, r)
       THEN /\ idx' = [idx EXCEPT ![t] = @ + 1]
            /\ pc' = [pc EXCEPT ![t] = "mark"]
       ELSE /\ idx' = [idx EXCEPT ![t] = 0]
            /\ pc' = [pc EXCEPT ![t] = IF t \in Workers /\ ~r.success
                                        THEN "idle" ELSE AfterSyncAll(t)]

\* sync_table returns r to sync_all, which collects it and moves on
Return(t, r) ==
    /\ results' = [results EXCEPT ![t] = Append(@, r)]
    /\ fetched' = [fetched EXCEPT ![t] = <<>>]
    /\ pos' = [pos EXCEPT ![t] = 0]
    /\ inserted' = [inserted EXCEPT ![t] = 0]
    /\ IF NextTable(t, r)
       THEN /\ idx' = [idx EXCEPT ![t] = @ + 1]
            /\ pc' = [pc EXCEPT ![t] = "mark"]
       ELSE /\ idx' = [idx EXCEPT ![t] = 0]
            /\ pc' = [pc EXCEPT ![t] = AfterSyncAll(t)]

\* a faulty sync_table that takes the database lock before it fetches
MarkLocking(t) ==
    /\ pc[t] = "mark"
    /\ dbWriter = NoThread /\ dbReaders = {}
    /\ dbWriter' = t
    /\ StatusWritable
    /\ status' = MarkSyncing(status, Target(t))
    /\ pc' = [pc EXCEPT ![t] = "fetch"]
    /\ UNCHANGED <<config, outerVars, db, dbReaders, running, sync_count, now, idx,
                   fetched, pos, inserted, results, started, lastStart, stopped, interrupted>>


\* manager.rs:117-123: mark the target as syncing and clear its error
Mark(t) ==
    /\ pc[t] = "mark"
    /\ StatusWritable
    /\ status' = MarkSyncing(status, Target(t))
    /\ pc' = [pc EXCEPT ![t] = "fetch"]
    /\ UNCHANGED <<config, outerVars, db, dbWriter, dbReaders, running, sync_count, now, idx,
                   fetched, pos, inserted, results, started, lastStart, stopped, interrupted>>

\* a faulty fetch-error exit that has already cleared the target table
FetchErrDropping(t, e) ==
    /\ pc[t] = "fetch"
    /\ StatusWritable
    /\ status' = update_status(status, Target(t), 0, now, ErrorToString(e))
    /\ db' = DropTable(db, Target(t))
    /\ Return(t, SyncResult(Target(t), FALSE, 0, ErrorToString(e)))
    /\ UNCHANGED <<config, outerVars, dbWriter, dbReaders, running, sync_count, now, started,
                   lastStart, stopped, interrupted>>


\* manager.rs:126-142: fetch_table returned Err(e)
FetchErr(t, e) ==
    /\ pc[t] = "fetch"
    /\ StatusWritable
    /\ status' = update_status(status, Target(t), 0, now, ErrorToString(e))
    /\ Return(t, SyncResult(Target(t), FALSE, 0, ErrorToString(e)))
    /\ UNCHANGED <<config, outerVars, db, dbWriter, dbReaders, running, sync_count, now, started,
                   lastStart, stopped, interrupted>>

\* manager.rs:126-127: fetch_table returned Ok with these rows
FetchOk(t, rows) ==
    /\ pc[t] = "fetch"
    /\ fetched' = [fetched EXCEPT ![t] = rows]
    /\ pc' = [pc EXCEPT ![t] = "lock"]
    /\ UNCHANGED <<config, outerVars, db, dbWriter, dbReaders, status, running, sync_count, now,
                   idx, pos, inserted, results, started, lastStart, stopped, interrupted>>

\* manager.rs:147: db.write() blocks until no reader and no writer holds the lock
LockFree == dbWriter = NoThread /\ dbReaders = {}

\* manager.rs:150: whether sync_table drops and recreates the target
ClearWanted == config.clear_before_sync

\* manager.rs:147-150: take the database write lock
AcquireWrite(t) ==
    /\ pc[t] = "lock"
    /\ LockFree
    /\ dbWriter' = t
    /\ pc' = [pc EXCEPT ![t] = IF ClearWanted THEN "drop" ELSE "get"]
    /\ UNCHANGED <<config, outerVars, db, dbReaders, status, running, sync_count, now, idx,
                   fetched, pos, inserted, results, started, lastStart, stopped, interrupted>>

\* a faulty drop that takes the lock for the drop alone
DropUnlocked(t) ==
    /\ pc[t] = "drop"
    /\ db' = DropTable(db, Target(t))
    /\ dbWriter' = NoThread
    /\ pc' = [pc EXCEPT ![t] = "create"]
    /\ UNCHANGED <<config, outerVars, dbReaders, status, running, sync_count, now, idx,
                   fetched, pos, inserted, results, started, lastStart, stopped, interrupted>>

\* manager.rs:151: drop the target, "not found" ignored; the lock stays held
Drop(t) ==
    /\ pc[t] = "drop"
    /\ db' = DropTable(db, Target(t))
    /\ pc' = [pc EXCEPT ![t] = "create"]
    /\ UNCHANGED <<config, outerVars, dbWriter, dbReaders, status, running, sync_count, now, idx,
                   fetched, pos, inserted, results, started, lastStart, stopped, interrupted>>

\* the lock guard is dropped when sync_table returns
ReleaseWrite(t) == dbWriter' = IF dbWriter = t THEN NoThread ELSE dbWriter

\* manager.rs:153-163: create the target with the mapped columns; a failure
\* is recorded by update_status, the write guard still held
Create(t) ==
    /\ pc[t] = "create"
    /\ IF CreateFails(db, Target(t))
       THEN /\ StatusWritable
            /\ status' = update_status(status, Target(t), 0, now,
                                       "failed to create table: duplicate")
            /\ pc' = [pc EXCEPT ![t] = "create_failed"]
            /\ UNCHANGED db
       ELSE /\ db' = CreateTable(db, Target(t), TargetColumns(CurTable(t)))
            /\ pc' = [pc EXCEPT ![t] = "get"]
            /\ UNCHANGED status
    /\ UNCHANGED <<config, outerVars, dbWriter, dbReaders, running, sync_count, now, idx,
                   fetched, pos, inserted, results, started, lastStart, stopped, interrupted>>

\* a faulty lookup that creates the target when it is missing
ObtainTableCreating(t) ==
    /\ pc[t] = "get"
    /\ db' = IF Target(t) \in DOMAIN db THEN db
             ELSE CreateTable(db, Target(t), TargetColumns(CurTable(t)))
    /\ pc' = [pc EXCEPT ![t] = IF fetched[t] = <<>> THEN "status" ELSE "insert"]
    /\ UNCHANGED <<config, outerVars, dbWriter, dbReaders, status, running, sync_count, now,
                   idx, fetched, pos, inserted, results, started, lastStart, stopped,
                   interrupted>>


\* a faulty lookup whose missing-table exit returns without update_status
ObtainTableKeepingFlag(t) ==
    /\ pc[t] = "get"
    /\ pc' = [pc EXCEPT ![t] = IF Target(t) \notin DOMAIN db THEN "get_failed"
                               ELSE IF fetched[t] = <<>> THEN "status" ELSE "insert"]
    /\ UNCHANGED <<config, outerVars, db, dbWriter, dbReaders, status, running, sync_count, now,
                   idx, fetched, pos, inserted, results, started, lastStart, stopped,
                   interrupted>>

\* manager.rs:177-183: get_table_mut(target); a missing target is recorded
\* by update_status, the write guard still held
ObtainTable(t) ==
    /\ pc[t] = "get"
    /\ IF Target(t) \notin DOMAIN db
       THEN /\ StatusWritable
            /\ status' = update_status(status, Target(t), 0, now,
                                       "table not found after creation")
            /\ pc' = [pc EXCEPT ![t] = "get_failed"]
       ELSE /\ pc' = [pc EXCEPT ![t] = IF fetched[t] = <<>> THEN "status" ELSE "insert"]
            /\ UNCHANGED status
    /\ UNCHANGED <<config, outerVars, db, dbWriter, dbReaders, running, sync_count, now, idx,
                   fetched, pos, inserted, results, started, lastStart, stopped, interrupted>>


\* a faulty loop that gives up at the first rejected row
KeepInsertingWhileAccepted(tbl, row, rest) == rest > 0 /\ InsertAccepts(tbl, row)

\* manager.rs:196-200: whether the loop goes on after row, `rest` rows left
KeepInserting(tbl, row, rest) == rest > 0

\* manager.rs:195-200: insert the next fetched row, counting it when accepted
InsertNext(t) ==
    /\ pc[t] = "insert"
    /\ pos[t] < Len(fetched[t])
    /\ Target(t) \in DOMAIN db
    /\ LET row == fetched[t][pos[t] + 1]
           tbl == db[Target(t)]
           more == KeepInserting(tbl, row, Len(fetched[t]) - (pos[t] + 1))
       IN /\ db' = [db EXCEPT ![Target(t)] = TableInsert(tbl, row)]
          /\ inserted' = [inserted EXCEPT ![t] =
                             IF InsertAccepts(tbl, row) THEN @ + 1 ELSE @]
          /\ pos' = [pos EXCEPT ![t] = @ + 1]
          /\ pc' = [pc EXCEPT ![t] = IF more THEN "insert" ELSE "status"]
    /\ UNCHANGED <<config, outerVars, dbWriter, dbReaders, status, running, sync_count, now, idx,
                   fetched, results, started, lastStart, stopped, interrupted>>

\* manager.rs:205: update_status(target, inserted, duration, None)
UpdateStatusOk(t) ==
    /\ pc[t] = "status"
    /\ StatusWritable
    /\ status' = update_status(status, Target(t), inserted[t], now, NoError)
    /\ pc' = [pc EXCEPT ![t] = "finish"]
    /\ UNCHANGED <<config, outerVars, db, dbWriter, dbReaders, running, sync_count, now, idx, fetched, pos,
                   inserted, results, started, lastStart, stopped, interrupted>>

\* a faulty counter that is never advanced
CountSyncNever(n) == n

\* manager.rs:206: sync_count.fetch_add(1)
CountSync(n) == n + 1

\* manager.rs:206: count the sync, the write guard still held
Finish(t) ==
    /\ pc[t] = "finish"
    /\ sync_count' = CountSync(sync_count)
    /\ pc' = [pc EXCEPT ![t] = "return"]
    /\ UNCHANGED <<config, outerVars, db, dbWriter, dbReaders, status, running, now, idx,
                   fetched, pos, inserted, results, started, lastStart, stopped, interrupted>>

\* manager.rs:165-171, 185-191, 208-215: sync_table returns its result, the
\* failure that update_status has recorded or the success that was counted,
\* and the write guard is dropped
ReturnResult(t) ==
    /\ pc[t] \in {"create_failed", "get_failed", "return"}
    /\ ReleaseWrite(t)
    /\ Return(t, CASE pc[t] = "create_failed" ->
                      SyncResult(Target(t), FALSE, 0, "failed to create table: duplicate")
                  [] pc[t] = "get_failed" ->
                      SyncResult(Target(t), FALSE, 0, "table not found after creation")
                  [] OTHER -> SyncResult(Target(t), TRUE, inserted[t], NoError))
    /\ UNCHANGED <<config, outerVars, db, dbReaders, status, running, sync_count, now, started,
                   lastStart, stopped, interrupted>>

(***************************************************************************)
(* The background worker, start_background_sync and stop.                  *)
(***************************************************************************)
\* a faulty start that does not look at the interval
IntervalNeverDisabled == FALSE

\* manager.rs:226: interval 0 means manual only
IntervalDisabled == config.interval_secs = 0

\* a faulty start that ignores what the swap returned
NeverAlreadyRunning == FALSE

\* manager.rs:231: running.swap(true) returned true
AlreadyRunning == running

\* the worker slot thread::spawn uses: the first of ws that is not alive
FreeWorker(ws) ==
    IF "w1" \in ws /\ pc["w1"] = "idle" THEN {"w1"}
    ELSE { w \in ws : pc[w] = "idle" }

\* manager.rs:225-255, the spawned thread taking one of the slots ws
StartBackgroundSync(ws) ==
    IF IntervalDisabled
    THEN /\ lastStart' = "disabled"
         /\ UNCHANGED <<config, outerVars, db, dbWriter, dbReaders, status, running, sync_count,
                        now, pc, idx, fetched, pos, inserted, results, started, stopped, interrupted>>
    ELSE IF AlreadyRunning
    THEN /\ lastStart' = "already"
         /\ running' = TRUE
         /\ UNCHANGED <<config, outerVars, db, dbWriter, dbReaders, status, sync_count, now,
                        pc, idx, fetched, pos, inserted, results, started, stopped, interrupted>>
    ELSE /\ lastStart' = "starting"
         /\ running' = TRUE
         /\ stops' = 0
         /\ \E w \in FreeWorker(ws) :
              /\ pc' = [pc EXCEPT ![w] = "begin"]
              /\ stopped' = [stopped EXCEPT ![w] = FALSE]
         /\ UNCHANGED <<config, otherVars, request, db, dbWriter, dbReaders, status,
                        sync_count, now, idx, fetched, pos, inserted, results, started,
                        interrupted>>

\* manager.rs:258-260
Stop ==
    /\ running' = FALSE
    /\ stopped' = [w \in Workers |-> pc[w] # "idle"]
    /\ interrupted' = [t \in SyncThreads |-> interrupted[t] \/ idx[t] > 0]
    /\ stops' = IF stops < 2 THEN stops + 1 ELSE stops
    /\ UNCHANGED <<config, otherVars, request, db, dbWriter, dbReaders, status, sync_count, now, pc, idx,
                   fetched, pos, inserted, results, started, lastStart>>

\* manager.rs:243: the loop head reads the flag after a sync_all
LoopCheck(w) ==
    /\ pc[w] = "loop"
    /\ pc' = [pc EXCEPT ![w] = IF running THEN "sleep" ELSE "idle"]
    /\ results' = [results EXCEPT ![w] = <<>>]
    /\ stopped' = [stopped EXCEPT ![w] = FALSE]
    /\ interrupted' = [interrupted EXCEPT ![w] = FALSE]
    /\ UNCHANGED <<config, outerVars, db, dbWriter, dbReaders, status, running, sync_count, now,
                   idx, fetched, pos, inserted, started, lastStart>>

\* manager.rs:244-248: the sleep ends and the flag is read again
WakeCheck(w) ==
    /\ pc[w] = "sleep"
    /\ pc' = [pc EXCEPT ![w] = IF running THEN "begin" ELSE "idle"]
    /\ stopped' = [stopped EXCEPT ![w] = FALSE]
    /\ UNCHANGED <<config, outerVars, db, dbWriter, dbReaders, status, running, sync_count, now,
                   idx, fetched, pos, inserted, results, started, lastStart, interrupted>>

\* manager.rs:241 and 250: the worker calls sync_all
WorkerSync(w) ==
    /\ pc[w] = "begin"
    /\ BeginSyncAll(w)
    /\ UNCHANGED <<config, outerVars, db, dbWriter, dbReaders, status, running, sync_count, now,
                   lastStart, stopped>>

\* http.rs:748-792: a manual trigger runs sync_all on the handler's thread;
\* without a SyncManager it is refused before its body is read
Trigger(h) ==
    /\ pc[h] = "idle"
    /\ IF sync
       THEN /\ \E n \in TriggerNames : request' = [request EXCEPT ![h] = n]
            /\ BeginSyncAll(h)
       ELSE /\ pc' = [pc EXCEPT ![h] = "refused"]
            /\ UNCHANGED <<request, started, idx, results, fetched, pos, inserted, interrupted>>
    /\ UNCHANGED <<config, otherVars, stops, db, dbWriter, dbReaders, status, running, sync_count, now,
                   lastStart, stopped>>

\* http.rs:765-788: the results the response lists: all of them, or those of
\* the named table
TriggerResults(h) ==
    LET named(r) == r.table = request[h]
    IN IF request[h] = NoName THEN results[h] ELSE SelectSeq(results[h], named)

\* http.rs:753-756, 790-791: the status code and the body of the response
TriggerResponse(h) ==
    IF pc[h] = "refused" THEN <<400, "sync not configured">>
    ELSE <<200, TriggerResults(h)>>

\* http.rs:790-791: the handler sends its response and its thread ends
Respond(h) ==
    /\ pc[h] \in {"respond", "refused"}
    /\ pc' = [pc EXCEPT ![h] = "idle"]
    /\ results' = [results EXCEPT ![h] = <<>>]
    /\ interrupted' = [interrupted EXCEPT ![h] = FALSE]
    /\ request' = [request EXCEPT ![h] = NoRequest]
    /\ UNCHANGED <<config, otherVars, stops, db, dbWriter, dbReaders, status, running, sync_count, now,
                   idx, fetched, pos, inserted, started, lastStart, stopped>>

(***************************************************************************)
(* HTTP readers (get, stats, list_tables) hold the lock in read mode.      *)
(***************************************************************************)
ReadLock(r) ==
    /\ r \notin dbReaders
    /\ dbWriter = NoThread
    /\ dbReaders' = dbReaders \cup {r}
    /\ UNCHANGED <<config, outerVars, db, dbWriter, status, running, sync_count, now, pc, idx,
                   fetched, pos, inserted, results, started, lastStart, stopped, interrupted>>

ReadUnlock(r) ==
    /\ r \in dbReaders
    /\ dbReaders' = dbReaders \ {r}
    /\ UNCHANGED <<config, outerVars, db, dbWriter, status, running, sync_count, now, pc, idx,
                   fetched, pos, inserted, results, started, lastStart, stopped, interrupted>>

(***************************************************************************)
(* The HTTP handlers of table and status requests (http.rs): one step per  *)
(* access to the database under the lock the handler took.                 *)
(***************************************************************************)
\* a faulty status handler that reads the database lock first
LockModeStatusRead(op) ==
    CASE op \in {"list_tables", "stats", "get", "sync_status"} -> "read"
      [] OTHER -> "write"

\* the lock each handler takes: db.read() in handle_list_tables, handle_stats
\* and handle_get, db.write() in handle_insert, handle_search, handle_delete,
\* handle_update and handle_drop_table, none in handle_sync_status
LockMode(op) ==
    CASE op \in {"list_tables", "stats", "get"} -> "read"
      [] op = "sync_status" -> "none"
      [] OTHER -> "write"

\* the handlers that begin with get_table / get_table_mut
TableOps == {"insert", "search", "get", "delete", "update"}

\* a connection thread has parsed its request; handle_create_table looks at
\* the column types before it asks for the lock
Receive(a, req) ==
    /\ hpc[a] = "idle"
    /\ served < MaxRequests
    /\ served' = served + 1
    /\ hreq' = [hreq EXCEPT ![a] = req]
    /\ hpc' = [hpc EXCEPT ![a] = CASE req.op = "create_table" -> "columns"
                                  [] req.op = "sync_status" -> "sync"
                                  [] OTHER -> "wait"]
    /\ UNCHANGED <<syncVars, sourceVars, call, sync, db, dbWriter, dbReaders, statusLock, hacc, hresp, snap,
                   issued>>

\* db.read() / db.write(): blocks while the lock is held in a conflicting mode;
\* handle_sync_status takes status.read() instead (manager.rs:262-266), which
\* blocks while a sync thread holds status.write()
Acquire(a) ==
    /\ hpc[a] = "wait"
    /\ CASE LockMode(hreq[a].op) = "write" ->
               /\ LockFree
               /\ dbWriter' = a
               /\ UNCHANGED dbReaders
         [] LockMode(hreq[a].op) = "read" ->
               /\ dbWriter = NoThread
               /\ dbReaders' = dbReaders \cup {a}
               /\ UNCHANGED dbWriter
         [] OTHER -> UNCHANGED <<dbWriter, dbReaders>>
    /\ IF hreq[a].op = "sync_status"
       THEN /\ statusLock \cap SyncThreads = {}
            /\ statusLock' = statusLock \cup {a}
       ELSE UNCHANGED statusLock
    /\ snap' = [snap EXCEPT ![a] = db]
    /\ hacc' = [hacc EXCEPT ![a] = IF hreq[a].op = "sync_status" THEN @ ELSE NoAcc]
    /\ hpc' = [hpc EXCEPT ![a] = "held"]
    /\ UNCHANGED <<syncVars, sourceVars, call, sync, db, hreq, hresp, issued, served>>

\* a faulty guard that a return with an error status leaks
UnlockOnSuccess(a, code) ==
    /\ dbWriter' = IF dbWriter = a /\ code = 200 THEN NoThread ELSE dbWriter
    /\ dbReaders' = IF code = 200 THEN dbReaders \ {a} ELSE dbReaders
    /\ UNCHANGED statusLock


\* the database lock guard is dropped when the handler returns, whatever the
\* status
Unlock(a, code) ==
    /\ dbWriter' = IF dbWriter = a THEN NoThread ELSE dbWriter
    /\ dbReaders' = dbReaders \ {a}
    /\ UNCHANGED statusLock

\* the handler returns resp
Exit(a, resp) ==
    /\ hresp' = [hresp EXCEPT ![a] = resp]
    /\ Unlock(a, resp.code)
    /\ hpc' = [hpc EXCEPT ![a] = "done"]

\* a faulty lookup that creates the table an insert names when it is missing
HLookupCreating(a) ==
    /\ hpc[a] = "held"
    /\ hreq[a].op \in TableOps
    /\ IF hreq[a].table \in DOMAIN db
       THEN /\ hpc' = [hpc EXCEPT ![a] = "table"]
            /\ UNCHANGED <<db, dbWriter, dbReaders, statusLock, hresp>>
       ELSE IF hreq[a].op = "insert"
       THEN /\ db' = CreateTable(db, hreq[a].table, ItemsColumns)
            /\ hpc' = [hpc EXCEPT ![a] = "table"]
            /\ UNCHANGED <<dbWriter, dbReaders, statusLock, hresp>>
       ELSE /\ Exit(a, Resp(404, "table not found"))
            /\ UNCHANGED db
    /\ UNCHANGED <<syncVars, sourceVars, call, sync, hreq, hacc, snap, issued, served>>


\* get_table / get_table_mut at the head of handle_insert, handle_search,
\* handle_get, handle_delete and handle_update
HLookup(a) ==
    /\ hpc[a] = "held"
    /\ hreq[a].op \in TableOps
    /\ IF hreq[a].table \in DOMAIN db
       THEN /\ hpc' = [hpc EXCEPT ![a] = "table"]
            /\ UNCHANGED <<dbWriter, dbReaders, statusLock, hresp>>
       ELSE Exit(a, Resp(404, "table not found"))
    /\ UNCHANGED <<syncVars, sourceVars, call, sync, db, hreq, hacc, snap, issued, served>>

\* a faulty batch insert that collects the new ids last first
HInsertNextReversed(a) ==
    /\ hpc[a] = "table"
    /\ hreq[a].op = "insert"
    /\ hacc[a].k < Len(hreq[a].rows)
    /\ LET tbl == db[hreq[a].table]
           row == hreq[a].rows[hacc[a].k + 1]
           ok == InsertAccepts(tbl, row)
       IN /\ db' = [db EXCEPT ![hreq[a].table] = TableInsert(tbl, row)]
          /\ hacc' = [hacc EXCEPT ![a].k = @ + 1,
                                  ![a].out = IF ok THEN <<tbl.next_id>> \o @ ELSE @]
          /\ issued' = IF ok THEN Append(issued, tbl.next_id) ELSE issued
    /\ UNCHANGED <<syncVars, sourceVars, call, sync, dbWriter, dbReaders, statusLock, hpc, hreq, hresp, snap,
                   served>>

\* http.rs:505, insert_batch taking the next row of the batch
HInsertNext(a) ==
    /\ hpc[a] = "table"
    /\ hreq[a].op = "insert"
    /\ hacc[a].k < Len(hreq[a].rows)
    /\ LET tbl == db[hreq[a].table]
           row == hreq[a].rows[hacc[a].k + 1]
           ok == InsertAccepts(tbl, row)
       IN /\ db' = [db EXCEPT ![hreq[a].table] = TableInsert(tbl, row)]
          /\ hacc' = [hacc EXCEPT ![a].k = @ + 1,
                                  ![a].out = IF ok THEN Append(@, tbl.next_id) ELSE @]
          /\ issued' = IF ok THEN Append(issued, tbl.next_id) ELSE issued
    /\ UNCHANGED <<syncVars, sourceVars, call, sync, dbWriter, dbReaders, statusLock, hpc, hreq, hresp, snap,
                   served>>

\* http.rs:506-509: the ids of the rows that went in, and their number
HInsertDone(a) ==
    /\ hpc[a] = "table"
    /\ hreq[a].op = "insert"
    /\ hacc[a].k = Len(hreq[a].rows)
    /\ Exit(a, [Resp(200, "") EXCEPT !.ids = hacc[a].out, !.count = Len(hacc[a].out)])
    /\ UNCHANGED <<syncVars, sourceVars, call, sync, db, hreq, hacc, snap, issued, served>>

\* http.rs:627, the filter taking the next id of the request
HDeleteNext(a) ==
    /\ hpc[a] = "table"
    /\ hreq[a].op = "delete"
    /\ hacc[a].k < Len(hreq[a].ids)
    /\ LET tbl == db[hreq[a].table]
           id == hreq[a].ids[hacc[a].k + 1]
       IN /\ db' = [db EXCEPT ![hreq[a].table] = TableDelete(tbl, id)]
          /\ hacc' = [hacc EXCEPT ![a].k = @ + 1,
                                  ![a].n = IF HasRow(tbl, id) THEN @ + 1 ELSE @]
    /\ UNCHANGED <<syncVars, sourceVars, call, sync, dbWriter, dbReaders, statusLock, hpc, hreq, hresp, snap,
                   issued, served>>

\* http.rs:627-628: the number of rows deleted
HDeleteDone(a) ==
    /\ hpc[a] = "table"
    /\ hreq[a].op = "delete"
    /\ hacc[a].k = Len(hreq[a].ids)
    /\ Exit(a, [Resp(200, "") EXCEPT !.count = hacc[a].n])
    /\ UNCHANGED <<syncVars, sourceVars, call, sync, db, hreq, hacc, snap, issued, served>>

\* http.rs:643-648
HUpdate(a) ==
    /\ hpc[a] = "table"
    /\ hreq[a].op = "update"
    /\ LET tbl == db[hreq[a].table]
           res == UpdateResult(tbl, hreq[a].id, hreq[a].values)
       IN /\ db' = [db EXCEPT ![hreq[a].table] =
                                   TableUpdate(tbl, hreq[a].id, hreq[a].values)]
          /\ Exit(a, CASE res = "Ok(true)" -> [Resp(200, "") EXCEPT !.data = "updated"]
                       [] res = "Ok(false)" -> Resp(404, "row not found")
                       [] OTHER -> Resp(400, "update rejected"))
    /\ UNCHANGED <<syncVars, sourceVars, call, sync, hreq, hacc, snap, issued, served>>

\* http.rs:604-612
HGet(a) ==
    /\ hpc[a] = "table"
    /\ hreq[a].op = "get"
    /\ Exit(a, [Resp(200, "") EXCEPT !.rows = GetMany(db[hreq[a].table], hreq[a].ids)])
    /\ UNCHANGED <<syncVars, sourceVars, call, sync, db, hreq, hacc, snap, issued, served>>

\* a faulty offset that leaves the list whole when the offset is past its end
ApplyOffsetKeepingPastEnd(ids, offset) ==
    IF offset = NoNum THEN ids
    ELSE IF offset < Len(ids) THEN SubSeq(ids, offset + 1, Len(ids)) ELSE ids

\* http.rs:569-575: offset drops the first rows, or all when past the end
ApplyOffset(ids, offset) ==
    IF offset = NoNum THEN ids
    ELSE IF offset < Len(ids) THEN SubSeq(ids, offset + 1, Len(ids)) ELSE <<>>

\* http.rs:577-579: limit truncates
ApplyLimit(ids, limit) ==
    IF limit = NoNum \/ limit >= Len(ids) THEN ids ELSE SubSeq(ids, 1, limit)

\* a faulty search that lets go of the lock before it fetches the rows
HSearchReleasing(a) ==
    /\ hpc[a] = "table"
    /\ hreq[a].op = "search"
    /\ LET tbl == db[hreq[a].table]
           col == column_index(tbl, hreq[a].column)
       IN IF col = 0
          THEN /\ Exit(a, Resp(400, "column not found"))
               /\ UNCHANGED hacc
          ELSE IF ~IsOk(SearchTypeOf(hreq[a]))
          THEN /\ Exit(a, Resp(400, SearchTypeOf(hreq[a])[2]))
               /\ UNCHANGED hacc
          ELSE LET row_ids == TableSearch(tbl, col, SearchTypeOf(hreq[a])[2])
               IN /\ hacc' = [hacc EXCEPT
                                 ![a].n = Len(row_ids),
                                 ![a].out = ApplyLimit(ApplyOffset(row_ids, hreq[a].offset),
                                                       hreq[a].limit)]
                  /\ hpc' = [hpc EXCEPT ![a] = "rows"]
                  /\ dbWriter' = NoThread
                  /\ UNCHANGED <<dbReaders, statusLock, hresp>>
    /\ UNCHANGED <<syncVars, sourceVars, call, sync, db, hreq, snap, issued, served>>

\* http.rs:524-579: the column, the search type, the search, offset and limit
HSearch(a) ==
    /\ hpc[a] = "table"
    /\ hreq[a].op = "search"
    /\ LET tbl == db[hreq[a].table]
           col == column_index(tbl, hreq[a].column)
       IN IF col = 0
          THEN /\ Exit(a, Resp(400, "column not found"))
               /\ UNCHANGED hacc
          ELSE IF ~IsOk(SearchTypeOf(hreq[a]))
          THEN /\ Exit(a, Resp(400, SearchTypeOf(hreq[a])[2]))
               /\ UNCHANGED hacc
          ELSE LET row_ids == TableSearch(tbl, col, SearchTypeOf(hreq[a])[2])
               IN /\ hacc' = [hacc EXCEPT
                                 ![a].n = Len(row_ids),
                                 ![a].out = ApplyLimit(ApplyOffset(row_ids, hreq[a].offset),
                                                       hreq[a].limit)]
                  /\ hpc' = [hpc EXCEPT ![a] = "rows"]
                  /\ UNCHANGED <<dbWriter, dbReaders, statusLock, hresp>>
    /\ UNCHANGED <<syncVars, sourceVars, call, sync, db, hreq, snap, issued, served>>

\* http.rs:581-589: get_many on the ids found, then the response
HSearchRows(a) ==
    /\ hpc[a] = "rows"
    /\ Exit(a, [Resp(200, "") EXCEPT !.rows = GetMany(db[hreq[a].table], hacc[a].out),
                                     !.total = hacc[a].n])
    /\ UNCHANGED <<syncVars, sourceVars, call, sync, db, hreq, hacc, snap, issued, served>>

\* http.rs:454-471: handle_drop_table under db.write()
HDrop(a) ==
    /\ hpc[a] = "held"
    /\ hreq[a].op = "drop_table"
    /\ IF hreq[a].table \in DOMAIN db
       THEN /\ db' = DropTable(db, hreq[a].table)
            /\ Exit(a, [Resp(200, "") EXCEPT !.data = "table dropped"])
       ELSE /\ Exit(a, Resp(404, "table not found"))
            /\ UNCHANGED db
    /\ UNCHANGED <<syncVars, sourceVars, call, sync, hreq, hacc, snap, issued, served>>

\* http.rs:473-477
HListTables(a) ==
    /\ hpc[a] = "held"
    /\ hreq[a].op = "list_tables"
    /\ Exit(a, [Resp(200, "") EXCEPT !.tables = table_names(db)])
    /\ UNCHANGED <<syncVars, sourceVars, call, sync, db, hreq, hacc, snap, issued, served>>

\* http.rs:479-487
HStats(a) ==
    /\ hpc[a] = "held"
    /\ hreq[a].op = "stats"
    /\ Exit(a, [Resp(200, "") EXCEPT !.tables = stats(db)])
    /\ UNCHANGED <<syncVars, sourceVars, call, sync, db, hreq, hacc, snap, issued, served>>

\* http.rs:717-727: without a SyncManager the answer is the empty status;
\* with one, Instant::now() is read before status() is called
HSyncBegin(a) ==
    /\ hpc[a] = "sync"
    /\ IF sync
       THEN /\ hacc' = [hacc EXCEPT ![a].n = now]
            /\ hpc' = [hpc EXCEPT ![a] = "wait"]
            /\ UNCHANGED <<dbWriter, dbReaders, statusLock, hresp>>
       ELSE /\ Exit(a, [Resp(200, "") EXCEPT !.sync = NoSync])
            /\ UNCHANGED hacc
    /\ UNCHANGED <<syncVars, sourceVars, call, sync, db, hreq, snap, issued, served>>

\* Duration::as_secs of Instant::duration_since, which is zero for an
\* earlier instant
AgoSecs(at, since) == IF since > at THEN 0 ELSE (at - since) \div TicksPerSec

\* http.rs:728-737: the entries of the status map as the response lists
\* them, their ages taken at the instant `at`
StatusTables(st, at) ==
    { [table |-> st[n].table,
       last_sync_ago_secs |-> IF st[n].last_sync = NoInstant THEN NoNum
                              ELSE AgoSecs(at, st[n].last_sync),
       last_row_count |-> st[n].last_row_count,
       error |-> st[n].error,
       syncing |-> st[n].syncing] : n \in DOMAIN st }

\* a faulty status() that keeps the status lock after its copy
HSyncStatusKeepingLock(a) ==
    /\ hpc[a] = "held"
    /\ hreq[a].op = "sync_status"
    /\ hresp' = [hresp EXCEPT ![a] =
                   [Resp(200, "") EXCEPT !.sync.tables = StatusTables(status, hacc[a].n)]]
    /\ hpc' = [hpc EXCEPT ![a] = "running"]
    /\ UNCHANGED <<syncVars, sourceVars, call, sync, db, dbWriter, dbReaders, statusLock, hreq,
                   hacc, snap, issued, served>>

\* http.rs:728-737, manager.rs:262-266: status() copies the map under
\* status.read() and gives the lock back
HSyncStatus(a) ==
    /\ hpc[a] = "held"
    /\ hreq[a].op = "sync_status"
    /\ hresp' = [hresp EXCEPT ![a] =
                   [Resp(200, "") EXCEPT !.sync.tables = StatusTables(status, hacc[a].n)]]
    /\ statusLock' = statusLock \ {a}
    /\ hpc' = [hpc EXCEPT ![a] = "running"]
    /\ UNCHANGED <<syncVars, sourceVars, call, sync, db, dbWriter, dbReaders, hreq, hacc, snap,
                   issued, served>>

\* http.rs:741, manager.rs:281-283: is_running() loads the flag
HSyncRunning(a) ==
    /\ hpc[a] = "running"
    /\ hresp' = [hresp EXCEPT ![a].sync.running = running]
    /\ hpc' = [hpc EXCEPT ![a] = "count"]
    /\ UNCHANGED <<syncVars, sourceVars, call, sync, db, dbWriter, dbReaders, statusLock, hreq,
                   hacc, snap, issued, served>>

\* http.rs:742-745, manager.rs:276-278: sync_count() loads the counter and
\* the handler returns
HSyncCount(a) ==
    /\ hpc[a] = "count"
    /\ Exit(a, [hresp[a] EXCEPT !.sync.total_syncs = sync_count])
    /\ UNCHANGED <<syncVars, sourceVars, call, sync, db, hreq, hacc, snap, issued, served>>

\* the monotonic clock moves on
Tick ==
    /\ now < MaxNow
    /\ now' = now + 1
    /\ UNCHANGED <<config, outerVars, db, dbWriter, dbReaders, status, running, sync_count, pc,
                   idx, fetched, pos, inserted, results, started, lastStart, stopped,
                   interrupted>>

\* http.rs:289: the response is sent and the connection thread ends
Send(a) ==
    /\ hpc[a] = "done"
    /\ hpc' = [hpc EXCEPT ![a] = "idle"]
    /\ hreq' = [hreq EXCEPT ![a] = NoReq]
    /\ hacc' = [hacc EXCEPT ![a] = NoAcc]
    /\ hresp' = [hresp EXCEPT ![a] = NoResp]
    /\ snap' = [snap EXCEPT ![a] = EmptyDb]
    /\ UNCHANGED <<syncVars, sourceVars, call, sync, db, dbWriter, dbReaders, statusLock, issued, served>>

\* the handlers on the threads hs, serving requests of reqs
HandlerSteps(hs, reqs) ==
    \E a \in hs :
        \/ \E req \in reqs : Receive(a, req)
        \/ Acquire(a)
        \/ HLookup(a)
        \/ HInsertNext(a)
        \/ HInsertDone(a)
        \/ HDeleteNext(a)
        \/ HDeleteDone(a)
        \/ HUpdate(a)
        \/ HGet(a)
        \/ HSearch(a)
        \/ HSearchRows(a)
        \/ HDrop(a)
        \/ HListTables(a)
        \/ HStats(a)
        \/ HSyncBegin(a)
        \/ HSyncStatus(a)
        \/ HSyncRunning(a)
        \/ HSyncCount(a)
        \/ Send(a)

(***************************************************************************)
(* The ClickHouse source's connection flag (sync/clickhouse.rs).           *)
(***************************************************************************)
\* clickhouse.rs:196-201: the flag is set only when the test query succeeded
connect(c, ok) == IF ok THEN TRUE ELSE c

\* a faulty disconnect that flips the flag
disconnect_toggle(c) == ~c

\* clickhouse.rs:203-205
disconnect(c) == FALSE

\* clickhouse.rs:207-209
is_connected(c) == c

Connect(ok) ==
    /\ connected' = connect(connected, ok)
    /\ disconnects' = 0
    /\ UNCHANGED <<config, httpVars, call, sync, statusLock, request, stops, db, dbWriter, dbReaders,
                   status,
                   running, sync_count, now, pc, idx, fetched, pos, inserted, results,
                   started, lastStart, stopped, interrupted>>

Disconnect ==
    /\ connected' = disconnect(connected)
    /\ disconnects' = IF disconnects < 2 THEN disconnects + 1 ELSE disconnects
    /\ UNCHANGED <<config, httpVars, call, sync, statusLock, request, stops, db, dbWriter, dbReaders,
                   status,
                   running, sync_count, now, pc, idx, fetched, pos, inserted, results,
                   started, lastStart, stopped, interrupted>>

SourceSteps == (\E ok \in BOOLEAN : Connect(ok)) \/ Disconnect

\* sync_table on the threads ts, the source answering a fetch with one of
\* `lists` or failing with one of `errs`
SyncSteps(ts, lists, errs) ==
    \E t \in ts :
        \/ Mark(t)
        \/ \E e \in errs : FetchErr(t, e)
        \/ \E rows \in lists : FetchOk(t, rows)
        \/ AcquireWrite(t)
        \/ Drop(t)
        \/ Create(t)
        \/ ObtainTable(t)
        \/ InsertNext(t)
        \/ UpdateStatusOk(t)
        \/ Finish(t)
        \/ ReturnResult(t)

\* start_background_sync and stop, called by a holder of the SyncManager
\* (on a server: calls after the one its constructor made), and the worker
\* loop on the slots ws
WorkerSteps(ws) ==
    \/ StartBackgroundSync(ws)
    \/ Stop
    \/ \E w \in ws : WorkerSync(w) \/ LoopCheck(w) \/ WakeCheck(w)

TriggerSteps == \E h \in Triggers : Trigger(h) \/ Respond(h)

ReaderSteps == \E r \in Readers : ReadLock(r) \/ ReadUnlock(r)

\* the background worker, a manual trigger and a reader side by side
Next ==
    \/ WorkerSteps({"w1"})
    \/ TriggerSteps
    \/ SyncSteps({"w1"} \cup Triggers, BriefLists, BriefErrors)
    \/ ReaderSteps

Spec == Init /\ [][Next]_vars

\* manual-only configuration (interval_secs = 0), every fetch outcome
InitData == InitWith(0, TRUE, EmptyDb)

NextData ==
    \/ TriggerSteps
    \/ SyncSteps(Triggers, RowLists, SourceErrors)
    \/ ReaderSteps

SpecData == InitData /\ [][NextData]_vars

\* a SyncManager of its own: start and stop racing with up to two worker
\* threads
NextRestart ==
    \/ WorkerSteps(Workers)
    \/ SyncSteps(Workers, BriefLists, BriefErrors)
    \/ ReaderSteps

SpecRestart == InitOwned /\ [][NextRestart]_vars

\* the worker thread's own steps: its loop and its sync_table calls
LoopSteps(w) ==
    \/ WorkerSync(w) \/ LoopCheck(w) \/ WakeCheck(w)
    \/ SyncSteps({w}, BriefLists, SourceErrors)

\* a SyncManager of its own: the background worker alone, stop() never called
NextLoop == StartBackgroundSync({"w1"}) \/ LoopSteps("w1")

\* the spawned thread is scheduled, fetch_table returns (the socket has
\* 30-second timeouts) and thread::sleep ends
FairLoop == WF_vars(LoopSteps("w1"))

SpecLoop == InitOwned /\ [][NextLoop]_vars /\ FairLoop

\* the background worker and a manual trigger with start and stop, no reader
NextStop ==
    \/ WorkerSteps({"w1"})
    \/ TriggerSteps
    \/ SyncSteps({"w1"} \cup Triggers, OneRowLists, BriefErrors)

\* a thread inside sync_table is scheduled and its fetch_table returns
FairStop ==
    \A t \in {"w1"} \cup Triggers : WF_vars(SyncSteps({t}, OneRowLists, BriefErrors))

SpecStop == Init /\ [][NextStop]_vars /\ FairStop

\* a SyncManager of its own: the source's connection calls beside start,
\* stop and the worker
NextSource ==
    \/ SourceSteps
    \/ WorkerSteps({"w1"})
    \/ SyncSteps({"w1"}, OneRowLists, BriefErrors)

SpecSource == InitOwned /\ [][NextSource]_vars

\* two connections with table requests on a table created over HTTP; no
\* sync manager is configured to run (interval_secs = 0)
InitHttp == InitWith(0, TRUE, ItemsDb)

NextHttp == HandlerSteps(Handlers, TableRequests)

SpecHttp == InitHttp /\ [][NextHttp]_vars

\* one connection whose requests end in every exit of the handlers, beside a
\* manual sync trigger, with clear_before_sync on or off
InitExits == \E c \in BOOLEAN : InitWith(0, c, ItemsDb)

NextExits ==
    \/ HandlerSteps({"a1"}, ExitRequests)
    \/ TriggerSteps
    \/ SyncSteps(Triggers, OneRowLists, BriefErrors)

SpecExits == InitExits /\ [][NextExits]_vars

(***************************************************************************)
(* Searches with an offset and a limit (handle_search).                    *)
(***************************************************************************)
\* the largest offset and the largest limit a search request carries
MaxPage == 4

\* a table four inserts have filled: the rows 1, 3 and 4 have k = 1, and
\* the strings differ in letter case and in their number of words
SearchDb ==
    LET rows == << <<VInt(1), VStr("a")>>, <<VInt(2), VStr("b a")>>,
                   <<VInt(1), VStr("c")>>, <<VInt(1), VStr("Ab")>> >>
        filled[n \in 0..Len(rows)] ==
            IF n = 0 THEN NewTable(ItemsColumns) ELSE TableInsert(filled[n - 1], rows[n])
    IN "items" :> filled[Len(rows)]

\* exact searches matching three rows, one row and none, with every offset
\* and limit up to MaxPage and without
PageRequests ==
    { [SearchReq("items", "k", "exact", VInt(v)) EXCEPT !.offset = o, !.limit = l] :
        v \in {1, 2, 7}, o \in {NoNum} \cup 0..MaxPage, l \in {NoNum} \cup 0..MaxPage }

\* searches of the other four types, each whole and with an offset and a limit
TypeRequests ==
    { [r EXCEPT !.offset = o, !.limit = l] :
        r \in { PrefixReq("items", "s", Some("")),
                PrefixReq("items", "s", Some("a")),
                PrefixReq("items", "k", Some("a")),
                QueryReq("items", "s", "fulltext", Some("A b")),
                QueryReq("items", "s", "fulltext", Some("a")),
                QueryReq("items", "s", "contains", Some("A")),
                RangeReq("items", "k", None, None),
                RangeReq("items", "k", Some(1), Some(1)),
                RangeReq("items", "k", Some(2), None),
                RangeReq("items", "s", None, None) },
        o \in {NoNum, 1}, l \in {NoNum, 2} }

InitSearch == InitWith(0, TRUE, SearchDb)

NextSearch ==
    \E a \in {"a1"} :
        \/ \E req \in PageRequests \cup TypeRequests : Receive(a, req)
        \/ Acquire(a)
        \/ HLookup(a)
        \/ HSearch(a)
        \/ HSearchRows(a)
        \/ Send(a)

SpecSearch == InitSearch /\ [][NextSearch]_vars

(***************************************************************************)
(* Text handling of the ClickHouse source (sync/clickhouse.rs).  A str is  *)
(* the sequence of its characters; Text(s) is the same str as one string.  *)
(***************************************************************************)
\* the longest field text parse_value is given
MaxText == 3
\* the longest response body parse_response is given
MaxResponse == 5
\* the most columns a mapping has where queries are built
MaxMapping == 3

VFloat(m, e) == [tag |-> "Float", v |-> <<m, e>>]
VBytes(s) == [tag |-> "Bytes", v |-> s]

ColumnTypes == {"Int", "Float", "String", "Bytes"}

RECURSIVE Text(_)
Text(s) == IF s = <<>> THEN "" ELSE Head(s) \o Text(Tail(s))

\* str::trim: without the white space at both ends
trim(s) ==
    LET kept == { i \in 1..Len(s) : s[i] \notin {" ", "\t", "\n", "\r"} }
        first == CHOOSE i \in kept : \A j \in kept : i <= j
        last == CHOOSE i \in kept : \A j \in kept : i >= j
    IN IF kept = {} THEN <<>> ELSE SubSeq(s, first, last)

\* str::replace: every match of `from`, found left to right without overlap
RECURSIVE replace(_, _, _)
replace(s, from, to) ==
    IF Len(s) < Len(from) THEN s
    ELSE IF SubSeq(s, 1, Len(from)) = from
    THEN to \o replace(SubSeq(s, Len(from) + 1, Len(s)), from, to)
    ELSE <<Head(s)>> \o replace(Tail(s), from, to)

\* str::split on one character: the pieces between its occurrences
RECURSIVE split(_, _)
split(s, sep) ==
    IF \A i \in 1..Len(s) : s[i] # sep THEN <<s>>
    ELSE LET k == CHOOSE i \in 1..Len(s) :
                     s[i] = sep /\ \A j \in 1..(i - 1) : s[j] # sep
         IN <<SubSeq(s, 1, k - 1)>> \o split(SubSeq(s, k + 1, Len(s)), sep)


\* the number a run of decimal digits writes; -1 for no run of digits
RECURSIVE Decimal(_)
Decimal(s) ==
    LET digits == <<"0", "1", "2", "3", "4", "5", "6", "7", "8", "9">>
        value(c) == (CHOOSE d \in 1..10 : digits[d] = c) - 1
        isDigit(c) == \E d \in 1..10 : digits[d] = c
    IN IF s = <<>> \/ ~isDigit(s[Len(s)]) THEN -1
       ELSE IF Len(s) = 1 THEN value(s[1])
       ELSE LET high == Decimal(SubSeq(s, 1, Len(s) - 1))
            IN IF high < 0 THEN -1 ELSE 10 * high + value(s[Len(s)])

\* str::parse::<i64>: an optional sign and at least one digit (texts of
\* MaxText characters stay far inside the range of i64)
parse_i64(s) ==
    LET signed == s # <<>> /\ s[1] \in {"+", "-"}
        n == Decimal(IF signed THEN Tail(s) ELSE s)
    IN IF n < 0 THEN Err("invalid digit found in string")
       ELSE Ok(IF signed /\ s[1] = "-" THEN -n ELSE n)

\* str::parse::<f64> on texts of signs, digits and points: an optional sign,
\* digits, and at most one point with a digit on one side of it at least.
\* The value m / 10^e is kept as VFloat(m, e) with no trailing zero counted.
parse_f64(s) ==
    LET signed == s # <<>> /\ s[1] \in {"+", "-"}
        body == IF signed THEN Tail(s) ELSE s
        parts == split(body, ".")
        whole == IF parts[1] = <<>> THEN 0 ELSE Decimal(parts[1])
        frac == IF Len(parts) = 1 \/ parts[2] = <<>> THEN 0 ELSE Decimal(parts[2])
        places == IF Len(parts) = 1 THEN 0 ELSE Len(parts[2])
        m == whole * 10^places + frac
        cut == CHOOSE j \in 0..places :
                   /\ m % 10^j = 0
                   /\ \A i \in (j + 1)..places : m % 10^i # 0
        valid == /\ Len(parts) <= 2
                 /\ whole >= 0
                 /\ frac >= 0
                 /\ \E i \in 1..Len(parts) : parts[i] # <<>>
    IN IF ~valid THEN Err("invalid float literal")
       ELSE Ok(VFloat(IF signed /\ s[1] = "-" THEN -(m \div 10^cut) ELSE m \div 10^cut,
                      places - cut))

\* a faulty parse_value that knows the null sentinels for numbers only
parse_value_null_for_numbers(s, col_type) ==
    LET t == trim(s)
        null == t = <<>> \/ t = <<"\\", "N">> \/ t = <<"N", "U", "L", "L">>
    IN CASE col_type = "Int" ->
               IF ~null /\ IsOk(parse_i64(t)) THEN VInt(parse_i64(t)[2]) ELSE VNull
         [] col_type = "Float" ->
               IF ~null /\ IsOk(parse_f64(t)) THEN parse_f64(t)[2] ELSE VNull
         [] col_type = "String" ->
               VStr(Text(replace(replace(replace(t, <<"\\", "t">>, <<"\t">>),
                                         <<"\\", "n">>, <<"\n">>),
                                 <<"\\", "\\">>, <<"\\">>)))
         [] OTHER -> VBytes(Text(t))

\* clickhouse.rs:124-154
parse_value(s, col_type) ==
    LET t == trim(s)
    IN IF t = <<>> \/ t = <<"\\", "N">> \/ t = <<"N", "U", "L", "L">> THEN VNull
       ELSE CASE col_type = "Int" ->
                    IF IsOk(parse_i64(t)) THEN VInt(parse_i64(t)[2]) ELSE VNull
              [] col_type = "Float" ->
                    IF IsOk(parse_f64(t)) THEN parse_f64(t)[2] ELSE VNull
              [] col_type = "String" ->
                    VStr(Text(replace(replace(replace(t, <<"\\", "t">>, <<"\t">>),
                                              <<"\\", "n">>, <<"\n">>),
                                      <<"\\", "\\">>, <<"\\">>)))
              [] OTHER -> VBytes(Text(t))

\* clickhouse.rs:157-192: the rows of a response, or the Parse error of the
\* first line whose field count is not the mapping's
RECURSIVE ParseLines(_, _)
ParseLines(ls, columns) ==
    IF ls = <<>> THEN Ok(<<>>)
    ELSE LET line == trim(Head(ls))
             fields == split(line, "\t")
             row == [i \in 1..(IF Len(fields) < Len(columns) THEN Len(fields)
                               ELSE Len(columns)) |->
                        parse_value(fields[i], columns[i].col_type)]
             rest == ParseLines(Tail(ls), columns)
         IN IF line = <<>> THEN rest
            ELSE IF Len(fields) # Len(columns) /\ columns # <<>>
            THEN Err([kind |-> "Parse",
                      msg |-> "column count mismatch: expected "
                                \o ToString(Len(columns)) \o ", got "
                                \o ToString(Len(fields))])
            ELSE IF IsOk(rest) THEN Ok(<<row>> \o rest[2]) ELSE rest

\* str::lines, then the loop of parse_response over them
parse_response(response, table) ==
    LET pieces == split(response, "\n")
        lines == IF pieces[Len(pieces)] = <<>>
                 THEN SubSeq(pieces, 1, Len(pieces) - 1) ELSE pieces
    IN ParseLines(lines, table.columns)

\* Vec<&str>::join
RECURSIVE join(_, _)
join(names, sep) ==
    IF names = <<>> THEN ""
    ELSE IF Len(names) = 1 THEN names[1]
    ELSE names[1] \o sep \o join(Tail(names), sep)

\* SyncTable::with_query
with_query(table, query) == [table EXCEPT !.query_override = query]

\* a faulty build_query that uses the override only when no column is mapped
build_query_mapping_first(table) ==
    IF table.columns # <<>>
    THEN "SELECT " \o join([i \in 1..Len(table.columns) |-> table.columns[i].source_name],
                           ", ")
                   \o " FROM " \o table.source_table
    ELSE IF table.query_override # "none" THEN table.query_override
    ELSE "SELECT * FROM " \o table.source_table

\* clickhouse.rs:27-41
build_query(table) ==
    IF table.query_override # "none" THEN table.query_override
    ELSE IF table.columns = <<>> THEN "SELECT * FROM " \o table.source_table
    ELSE "SELECT " \o join([i \in 1..Len(table.columns) |-> table.columns[i].source_name],
                           ", ")
                   \o " FROM " \o table.source_table

\* the texts of fields: white space, the null sentinel's and the escapes'
\* characters, a letter, and what numbers are written with
TextChars == {" ", "\t", "\n", "\\", "N", "t", "n", "b", "1", "-", "."}
Texts == UNION { [1..n -> TextChars] : n \in 0..MaxText }

\* the response bodies: fields of a digit or a letter, tabs, line ends
Responses == UNION { [1..n -> {"1", "b", "\t", "\n"}] : n \in 0..MaxResponse }

\* the sync tables a fetch is asked for: no mapping, one column, two columns
FetchTables ==
    { SyncTable("src_users", "users", <<>>),
      SyncTable("src_users", "users", <<ColumnMapping("uid", "id", "Int")>>),
      UsersTable }

\* the sync tables a query is built for: every mapping of up to MaxMapping
\* of the source's columns, with and without a query override
QueryTables ==
    LET mappings == { ColumnMapping("uid", "id", "Int"),
                      ColumnMapping("uname", "name", "String"),
                      ColumnMapping("score", "score", "Float") }
        plain == { SyncTable(src, "users", cols) :
                     src \in {"src_users", "db.users"},
                     cols \in UNION { [1..n -> mappings] : n \in 0..MaxMapping } }
    IN plain \cup { with_query(t, q) :
                      t \in plain, q \in {"SELECT 1", "SELECT * FROM users WHERE active = 1"} }

(***************************************************************************)
(* Column type names, check_auth and table creation (query.rs, config.rs, *)
(* http.rs).                                                               *)
(***************************************************************************)
\* a faulty to_column_type that compares the name as it was written
to_column_type_as_written(col_type) ==
    LET name == Text(col_type)
    IN CASE name \in {"int", "integer", "i64"} -> "Int"
         [] name \in {"float", "double", "f64"} -> "Float"
         [] name \in {"string", "text", "varchar"} -> "String"
         [] name \in {"bytes", "blob", "binary"} -> "Bytes"
         [] OTHER -> "none"

\* query.rs:20-28: the ColumnType a type name stands for, "none" for None
to_column_type(col_type) ==
    LET name == Text(to_lowercase(col_type))
    IN CASE name \in {"int", "integer", "i64"} -> "Int"
         [] name \in {"float", "double", "f64"} -> "Float"
         [] name \in {"string", "text", "varchar"} -> "String"
         [] name \in {"bytes", "blob", "binary"} -> "Bytes"
         [] OTHER -> "none"

\* the type names of the requests: the twelve known ones in lower case, in
\* upper case and capitalised, and names that are not known
TypeNames ==
    LET up(c) == IF \E k \in 1..Len(Letters.lower) : Letters.lower[k] = c
                 THEN Letters.upper[CHOOSE k \in 1..Len(Letters.lower) : Letters.lower[k] = c]
                 ELSE c
        known == {
                 <<"i", "n", "t">>, <<"i", "n", "t", "e", "g", "e", "r">>,
                 <<"i", "6", "4">>, <<"f", "l", "o", "a", "t">>,
                 <<"d", "o", "u", "b", "l", "e">>, <<"f", "6", "4">>,
                 <<"s", "t", "r", "i", "n", "g">>, <<"t", "e", "x", "t">>,
                 <<"v", "a", "r", "c", "h", "a", "r">>,
                 <<"b", "y", "t", "e", "s">>, <<"b", "l", "o", "b">>,
                 <<"b", "i", "n", "a", "r", "y">> }
    IN known
       \cup { [i \in 1..Len(w) |-> up(w[i])] : w \in known }
       \cup { [i \in 1..Len(w) |-> IF i = 1 THEN up(w[i]) ELSE w[i]] : w \in known }
       \cup { <<>>, <<"b", "o", "o", "l">>, <<"i", "n", "t", "8">>, <<"i", "n", "t", " ">>,
              <<"I", "n">>, <<"s", "t", "r">> }

\* config.rs:23-33
requires_auth_for_read(level) == level \in {"Read", "All"}

\* a faulty requires_auth_for_write that leaves writes open at level Read
requires_auth_for_write_lax(level) == level \in {"Write", "All"}

requires_auth_for_write(level) == level \in {"Write", "Read", "All"}

requires_auth_for_health(level) == level = "All"

AuthLevels == {"None", "Write", "Read", "All"}

\* what the Authorization header of a request is to the AuthManager, whose
\* code is outside src/: absent, rejected by validate_basic_auth, or the
\* credentials of a user with one of the three roles
Headers == {"absent", "rejected", "ReadOnly", "ReadWrite", "Admin"}

\* http.rs:293-330: the role granted, or the status and the error text
check_auth(header, auth_level, is_write, is_health) ==
    LET needs_auth == IF is_health THEN requires_auth_for_health(auth_level)
                      ELSE IF is_write THEN requires_auth_for_write(auth_level)
                      ELSE requires_auth_for_read(auth_level)
        can_write == header \in {"ReadWrite", "Admin"}
    IN IF ~needs_auth THEN Ok("Admin")
       ELSE IF header = "absent" THEN Err(<<401, "authentication required">>)
       ELSE IF header = "rejected" THEN Err(<<401, "invalid credentials">>)
       ELSE IF is_write /\ ~can_write THEN Err(<<403, "write access required">>)
       ELSE Ok(header)

\* Role::can_admin (crate::auth, outside src/): the admin role alone
can_admin(role) == role = "Admin"

\* the endpoints route_request guards with can_admin
AdminEndpoints == {"sync_trigger", "sync_configure", "add_user", "remove_user", "list_users"}

\* http.rs:385-420: the admin endpoints of route_request; GET /auth/users
\* asks check_auth as a read, the four POST endpoints as writes.  Ok: the
\* endpoint's handler is called; Err: the response sent instead
route_request(endpoint, header, auth_level) ==
    LET checked == check_auth(header, auth_level, endpoint # "list_users", FALSE)
    IN IF ~IsOk(checked) THEN checked
       ELSE IF ~can_admin(checked[2]) THEN Err(<<403, "admin required">>)
       ELSE Ok(endpoint)

\* a create_table request: the table's name and its ColumnDefs
CreateReq(table, columns) == [Req("create_table", table) EXCEPT !.columns = columns]

ColumnDef(name, col_type) == [name |-> name, col_type |-> col_type]

\* http.rs:431-439: the type names become ColumnTypes before the lock is
\* taken; one unknown name ends the request
HCreateColumns(a) ==
    /\ hpc[a] = "columns"
    /\ IF \E i \in 1..Len(hreq[a].columns) :
             to_column_type(hreq[a].columns[i].col_type) = "none"
       THEN Exit(a, Resp(400, "invalid column type"))
       ELSE /\ hpc' = [hpc EXCEPT ![a] = "wait"]
            /\ UNCHANGED <<dbWriter, dbReaders, statusLock, hresp>>
    /\ UNCHANGED <<syncVars, sourceVars, call, sync, db, hreq, hacc, snap, issued, served>>

\* http.rs:441-451: Database::create_table under the write lock (its error
\* text is the database's; the response carries "create rejected" for it)
HCreate(a) ==
    /\ hpc[a] = "held"
    /\ hreq[a].op = "create_table"
    /\ LET defs == hreq[a].columns
           columns == [i \in 1..Len(defs) |->
                         Column(defs[i].name, to_column_type(defs[i].col_type))]
       IN IF CreateFails(db, hreq[a].table)
          THEN /\ Exit(a, Resp(400, "create rejected"))
               /\ UNCHANGED db
          ELSE /\ db' = CreateTable(db, hreq[a].table, columns)
               /\ Exit(a, [Resp(200, "") EXCEPT !.data = "table created"])
    /\ UNCHANGED <<syncVars, sourceVars, call, sync, hreq, hacc, snap, issued, served>>

\* requests creating a table of one column of every type name, and of two
\* columns with the second type known, unknown or differently written
CreateRequests ==
    { CreateReq(t, <<ColumnDef("k", n)>>) : t \in {"items", "logs"}, n \in TypeNames }
    \cup { CreateReq("items", <<ColumnDef("k", <<"i", "6", "4">>), ColumnDef("s", n)>>) :
             n \in { <<"T", "E", "X", "T">>, <<"b", "o", "o", "l">>, <<"B", "l", "o", "b">> } }

NextCreate ==
    \E a \in {"a1"} :
        \/ \E req \in CreateRequests : Receive(a, req)
        \/ HCreateColumns(a)
        \/ Acquire(a)
        \/ HCreate(a)
        \/ Send(a)

SpecCreate == InitData /\ [][NextCreate]_vars

\* a function without state is called and returns its result
Call(fn, args, result) ==
    /\ call.fn = NoCall.fn
    /\ call' = [fn |-> fn, args |-> args, result |-> result]
    /\ UNCHANGED <<syncVars, sourceVars, httpVars, db, dbWriter, dbReaders, statusLock, sync>>

\* the caller has taken the result
Returned ==
    /\ call.fn # NoCall.fn
    /\ call' = NoCall
    /\ UNCHANGED <<syncVars, sourceVars, httpVars, db, dbWriter, dbReaders, statusLock, sync>>

\* the functions without state, applied to every input of the sets above
NextCalls ==
    \/ \E s \in Texts, col_type \in ColumnTypes :
          Call("parse_value", <<s, col_type>>, parse_value(s, col_type))
    \/ \E response \in Responses, table \in FetchTables :
          Call("parse_response", <<response, table>>, parse_response(response, table))
    \/ \E table \in QueryTables : Call("build_query", <<table>>, build_query(table))
    \/ \E header \in Headers, level \in AuthLevels, is_write, is_health \in BOOLEAN :
          Call("check_auth", <<header, level, is_write, is_health>>,
               check_auth(header, level, is_write, is_health))
    \/ \E endpoint \in AdminEndpoints, header \in Headers, level \in AuthLevels :
          Call("route_request", <<endpoint, header, level>>,
               route_request(endpoint, header, level))
    \/ Returned

SpecCalls == InitData /\ [][NextCalls]_vars

(***************************************************************************)
(* The two locks side by side: a manual sync, table handlers and status    *)
(* reads.                                                                  *)
(***************************************************************************)
\* one request per way of locking: db.write(), db.read(), status.read()
LockRequests ==
    { InsertReq("items", << <<VInt(1), VStr("a")>> >>),
      GetReq("items", <<1>>),
      Req("sync_status", "") }

InitLocks == InitWith(0, TRUE, ItemsDb)

\* the steps of a handler that has received its request
HandlerRuns(a) ==
    \/ Acquire(a)
    \/ HLookup(a)
    \/ HInsertNext(a)
    \/ HInsertDone(a)
    \/ HGet(a)
    \/ HSyncBegin(a)
    \/ HSyncStatus(a)
    \/ HSyncRunning(a)
    \/ HSyncCount(a)
    \/ Send(a)

NextLocks ==
    \/ TriggerSteps
    \/ SyncSteps(Triggers, OneRowLists, BriefErrors)
    \/ \E req \in LockRequests : Receive("a1", req)
    \/ HandlerRuns("a1")

\* every thread that is inside sync_table or inside a handler is scheduled,
\* and fetch_table returns (the socket has 30-second timeouts)
FairLocks ==
    /\ \A t \in Triggers : WF_vars(SyncSteps({t}, OneRowLists, BriefErrors))
    /\ WF_vars(HandlerRuns("a1"))

SpecLocks == InitLocks /\ [][NextLocks]_vars /\ FairLocks

(***************************************************************************)
(* Status requests beside a manual trigger and the clock, on a server with *)
(* a SyncManager (manual-only, interval_secs = 0) and on one without.      *)
(***************************************************************************)
InitStatus == \E m \in BOOLEAN : InitServer(0, TRUE, EmptyDb, m)

\* the steps of handle_sync_status
StatusRuns(a) ==
    \/ HSyncBegin(a)
    \/ Acquire(a)
    \/ HSyncStatus(a)
    \/ HSyncRunning(a)
    \/ HSyncCount(a)
    \/ Send(a)

\* the source answers every fetch
NextStatus ==
    \/ TriggerSteps
    \/ \E t \in Triggers :
          \/ Mark(t)
          \/ \E rows \in OneRowLists : FetchOk(t, rows)
          \/ AcquireWrite(t)
          \/ Drop(t)
          \/ Create(t)
          \/ ObtainTable(t)
          \/ InsertNext(t)
          \/ UpdateStatusOk(t)
          \/ Finish(t)
          \/ ReturnResult(t)
    \/ Receive("a1", Req("sync_status", ""))
    \/ StatusRuns("a1")
    \/ Tick

SpecStatus == InitStatus /\ [][NextStatus]_vars


(***************************************************************************)
(* Append mode: clear_before_sync = false over a database that holds the   *)
(* first target with a row and lacks the second.                           *)
(***************************************************************************)
\* users as POST /table/create and POST /insert left it; pairs was never made
AppendDb ==
    "users" :> InsertRow(NewTable(TargetColumns(UsersTable)), <<VInt(7), VStr("z")>>)

InitAppend == InitWith(0, FALSE, AppendDb)

\* manual syncs one after another; without clear_before_sync sync_table has
\* no drop and no create step
NextAppend ==
    \/ TriggerSteps
    \/ \E t \in Triggers :
          \/ Mark(t)
          \/ \E e \in BriefErrors : FetchErr(t, e)
          \/ \E rows \in RowLists : FetchOk(t, rows)
          \/ AcquireWrite(t)
          \/ ObtainTable(t)
          \/ InsertNext(t)
          \/ UpdateStatusOk(t)
          \/ Finish(t)
          \/ ReturnResult(t)

SpecAppend == InitAppend /\ [][NextAppend]_vars


(***************************************************************************)
(* Properties.                                                             *)
(***************************************************************************)
Last(seq) == seq[Len(seq)]

\* the thread is between the drop of its target and its last insert
InRebuild(t) == pc[t] \in {"drop", "create", "get", "insert"}

\* C1: with clear_before_sync, while a sync_table is anywhere between dropping
\* its target and inserting its last row, that thread holds the database
\* write lock and no reader holds the lock, so no reader sees the table
\* missing or partly loaded.
C1_RebuildUnderWriteLock ==
    \A t \in SyncThreads :
        (config.clear_before_sync /\ InRebuild(t)) =>
            (dbWriter = t /\ dbReaders = {})

\* a rebuild is half done: one of two rows is in, another sync waits
C1_Witness ==
    \E t \in SyncThreads :
        /\ pc[t] = "insert"
        /\ pos[t] = 1
        /\ Len(fetched[t]) = 2
        /\ \E u \in SyncThreads : u # t /\ pc[u] = "lock"

\* the columns the mapping declares, in order
DeclaredColumns(table) ==
    [i \in 1..Len(table.columns) |->
        [name |-> table.columns[i].target_name, col_type |-> table.columns[i].col_type]]

\* whether a row fits the declared columns
RowFits(row, cols) ==
    /\ Len(row) = Len(cols)
    /\ \A i \in 1..Len(row) : row[i].tag \in {"Null", cols[i].col_type}

\* the fetched rows that fit, in fetch order
FittingRows(rows, cols) ==
    LET fits(row) == RowFits(row, cols)
    IN SelectSeq(rows, fits)

\* C2: when a sync_table with clear_before_sync has inserted its rows and is
\* about to return success, the target holds exactly the fetched rows that
\* insert accepts, in fetch order with RowIds 1..n, nothing from before, and
\* its columns are the mapping's target names and types in declared order.
C2_RebuiltExactly ==
    \A t \in SyncThreads :
        (config.clear_before_sync /\ pc[t] \in {"status", "finish", "return"}) =>
            LET cols == DeclaredColumns(CurTable(t))
                rows == FittingRows(fetched[t], cols)
            IN /\ Target(t) \in DOMAIN db
               /\ db[Target(t)].columns = cols
               /\ Len(db[Target(t)].rows) = Len(rows)
               /\ \A i \in 1..Len(rows) :
                    db[Target(t)].rows[i] = [id |-> i, values |-> rows[i]]

\* the second sync of a target that held two rows leaves one row: of the two
\* fetched rows one was rejected
C2_Witness ==
    \E t \in SyncThreads :
        /\ pc[t] = "status"
        /\ status[Target(t)].last_row_count = 2
        /\ Len(fetched[t]) = 2
        /\ Len(db[Target(t)].rows) = 1

\* thread t's fetch_table fails in this step
FetchFails(t) == pc[t] = "fetch" /\ pc'[t] # "fetch" /\ pc'[t] # "lock"

\* C3: a sync_table that fails in fetch_table leaves the target's
\* last_row_count as the prior sync recorded it.
C3_FailedFetchKeepsRowCount ==
    [][\A t \in SyncThreads :
         FetchFails(t) =>
            status'[Target(t)].last_row_count = status[Target(t)].last_row_count]_vars

\* C4: when fetch_table fails, sync_table returns success=false,
\* rows_synced=0 and the source error's message, and the target's status
\* then carries the same error and is_syncing=false.
C4_FetchErrorReported ==
    [][\A t \in SyncThreads :
         FetchFails(t) =>
            /\ Len(results'[t]) = Len(results[t]) + 1
            /\ Last(results'[t]).table = Target(t)
            /\ Last(results'[t]).success = FALSE
            /\ Last(results'[t]).rows_synced = 0
            /\ Last(results'[t]).error \in { ErrorToString(e) : e \in SourceErrors }
            /\ status'[Target(t)].error = Last(results'[t]).error
            /\ status'[Target(t)].syncing = FALSE]_vars

\* both source errors have been reported, one per table
C4_Witness ==
    \E t \in SyncThreads :
        /\ Len(results[t]) = 2
        /\ results[t][1].error = "connection error: refused"
        /\ results[t][2].error = "parse error: column count mismatch"
        /\ status["users"].error = "connection error: refused"
        /\ status["pairs"].error = "parse error: column count mismatch"

\* the pcs of a thread inside sync_table
InSyncTable(t) ==
    pc[t] \in {"mark", "fetch", "lock", "drop", "create", "create_failed", "get",
               "get_failed", "insert", "status", "finish", "return"}

\* C5: sync_all collects one SyncResult per configured table, in configured
\* order, and goes on to the next table whatever the earlier results were:
\* inside the i-th sync_table it holds the results of tables 1..i-1, and at
\* its end it holds one for every table.
C5_OneResultPerTable ==
    \A t \in SyncThreads :
        /\ InSyncTable(t) => Len(results[t]) = idx[t] - 1
        /\ pc[t] \in {"respond", "loop"} => Len(results[t]) = Len(config.tables)
        /\ \A i \in 1..Len(results[t]) :
              results[t][i].table = config.tables[i].target_table

\* a sync_all is over whose first table failed and whose second succeeded
C5_Witness ==
    \E t \in SyncThreads :
        /\ pc[t] = "respond"
        /\ Len(results[t]) = 2
        /\ ~results[t][1].success
        /\ results[t][2].success

\* the threads whose sync_table returns success in this step
ReturnsSuccess ==
    { t \in SyncThreads :
        /\ Len(results'[t]) = Len(results[t]) + 1
        /\ Last(results'[t]).success }

\* the threads whose sync_table counts its success in this step
CountsSuccess == { t \in SyncThreads : pc[t] = "finish" /\ pc'[t] = "return" }

\* C6 as stated: sync_count is the number of sync_table calls that have
\* completed successfully, so it goes up by exactly one in each step in
\* which a sync_table returns success and is unchanged by every other step.
C6_CountIsCompletedSyncs ==
    [][sync_count' = sync_count + Cardinality(ReturnsSuccess)]_vars

\* C6: sync_count goes up by exactly one in the step in which a sync_table
\* counts its success, which is the last step before that call returns
\* success, and is unchanged by every other step (a failed sync_table among
\* them): a call that has counted returns success next and nothing else, and
\* only such a call returns success, so sync_count is the number of
\* successful calls that have returned or are about to, and never decreases.
C6_SyncCountCountsSuccesses ==
    [][/\ sync_count' = sync_count + Cardinality(CountsSuccess)
       /\ \A t \in SyncThreads :
             /\ (pc[t] = "return" /\ pc'[t] # "return") => t \in ReturnsSuccess
             /\ t \in ReturnsSuccess => pc[t] = "return"]_vars

\* two syncs have been counted, the second of them has not returned yet,
\* and one has failed
C6_Witness ==
    /\ sync_count = 2
    /\ \E t \in SyncThreads : pc[t] = "return"
    /\ \E t \in SyncThreads : Len(results[t]) > 0 /\ ~results[t][1].success

\* C7: a rejected row does not end the insert loop: when the loop is over
\* every fetched row has been tried, the count is the number of rows that
\* fit the columns (at most the number fetched), and the success result and
\* the recorded last_row_count both carry that count.
C7_RejectedRowsSkipped ==
    [][\A t \in SyncThreads :
         (pc[t] = "return" /\ pc'[t] # "return") =>
            LET n == Len(FittingRows(fetched[t], DeclaredColumns(CurTable(t))))
            IN /\ pos[t] = Len(fetched[t])
               /\ n <= Len(fetched[t])
               /\ Last(results'[t]).success
               /\ Last(results'[t]).rows_synced = n
               /\ status[Target(t)].last_row_count = n]_vars

\* a sync is about to return: the first fetched row was rejected and the
\* one after it inserted
C7_Witness ==
    \E t \in SyncThreads :
        /\ pc[t] = "return"
        /\ Len(fetched[t]) = 2
        /\ ~RowFits(fetched[t][1], DeclaredColumns(CurTable(t)))
        /\ inserted[t] = 1

\* C8: with interval_secs = 0 start_background_sync does nothing: running
\* stays false and no worker thread exists, so no sync is run by it.
C8_IntervalZeroStartsNothing ==
    config.interval_secs = 0 =>
        (running = FALSE /\ \A w \in Workers : pc[w] = "idle")

\* start_background_sync has been called with interval_secs = 0 and a
\* manual sync has begun since
C8_Witness == config.interval_secs = 0 /\ lastStart = "disabled" /\ started > 0

\* C9: start_background_sync called while running is true changes nothing:
\* no worker is spawned, no sync is begun, running stays true.
C9_StartWhileRunningIsNoOp ==
    [][(running /\ StartBackgroundSync(Workers)) =>
          /\ running'
          /\ UNCHANGED <<config, outerVars, db, dbWriter, dbReaders, status, sync_count, now, pc,
                         idx, fetched, pos, inserted, results, started, stopped, interrupted>>]_vars

\* a start call found the flag set while a worker slot was free
C9_Witness ==
    /\ lastStart = "already"
    /\ running
    /\ \E w \in Workers : pc[w] = "idle"

\* worker w reads the running flag in this step
ChecksFlag(w) == pc[w] \in {"loop", "sleep"} /\ pc'[w] # pc[w]

\* C10: stop() clears running, and a worker alive when stop() was called
\* exits at its next read of the flag.
C10_StopEndsWorkerAtNextCheck ==
    [][/\ Stop => ~running'
       /\ \A w \in Workers : (stopped[w] /\ ChecksFlag(w)) => pc'[w] = "idle"]_vars

\* C11: while stop() is not called, no step of the worker (a failed
\* sync_table among them) clears running or ends the worker thread, and a
\* started worker goes on from one sync_all to the next: it performs every
\* sync_all the model's budget allows and stands ready to begin another.
C11_WorkerKeepsSyncing ==
    /\ [][/\ running => running'
          /\ \A w \in Workers : pc[w] # "idle" => pc'[w] # "idle"]_vars
    /\ (lastStart = "starting") ~> (started = MaxSyncs /\ pc["w1"] = "begin")

\* the worker begins its second sync_all after a first in which every
\* sync_table failed
C11_Witness ==
    /\ running
    /\ started = 2
    /\ pc["w1"] = "mark"
    /\ sync_count = 0
    /\ \A n \in DOMAIN status : status[n].error # NoError

\* thread t's sync_all is over with one result per configured table, each a
\* success or a source error
RanEveryTable(t) ==
    /\ idx[t] = 0
    /\ Len(results[t]) = Len(config.tables)
    /\ \A i \in 1..Len(results[t]) :
          \/ results[t][i].success
          \/ results[t][i].error \in { ErrorToString(e) : e \in SourceErrors }

\* C12: stop() does not cancel a sync in progress: a sync_all ends only with
\* a result for every configured table, and a sync_all during which stop()
\* was called (on the worker's thread or a trigger's) goes on to that end.
C12_StopDoesNotCancelSync ==
    /\ [][\A t \in SyncThreads :
            (idx[t] > 0 /\ idx'[t] = 0) => Len(results'[t]) = Len(config.tables)]_vars
    /\ \A t \in {"w1"} \cup Triggers :
          interrupted[t] ~> (interrupted[t] /\ RanEveryTable(t))

\* stop() was called while the worker and a trigger were both inside
\* sync_all, and both have since run every table
C12_Witness ==
    /\ ~running
    /\ interrupted["w1"] /\ pc["w1"] = "loop" /\ RanEveryTable("w1")
    /\ interrupted["h1"] /\ pc["h1"] = "respond" /\ RanEveryTable("h1")

\* C13: stop() leaves running=false and the status map and sync_count as
\* they were, and a stop() right after a stop() changes nothing of the
\* manager, the database or the threads; disconnect() leaves
\* is_connected()=false, and a disconnect() right after a disconnect() leaves
\* the source as the first one did.
C13_StopAndDisconnectIdempotent ==
    [][/\ Stop => (~running' /\ status' = status /\ sync_count' = sync_count)
       /\ (stops >= 1 /\ Stop) =>
             UNCHANGED <<config, running, status, sync_count, db, dbWriter, dbReaders, statusLock,
                         pc, idx, fetched, pos, inserted, results, connected>>
       /\ Disconnect => ~is_connected(connected')
       /\ (disconnects >= 1 /\ Disconnect) => connected' = connected
       /\ disconnect(disconnect(connected)) = disconnect(connected)]_vars

\* stop() was called twice in a row on a started manager whose worker is
\* still alive, and disconnect() twice in a row
C13_Witness ==
    /\ stops = 2
    /\ lastStart = "starting"
    /\ ~running
    /\ pc["w1"] # "idle"
    /\ disconnects = 2
    /\ ~connected

\* thread h takes this step
StepOf(h) == pc'[h] # pc[h] \/ pos'[h] # pos[h]

\* C14: a sync trigger that names a table syncs only that table: no step of
\* the request changes another table's status entry or the contents of
\* another target, sync_count is advanced only for the named table, and the
\* response lists only the named table.
C14_NamedTriggerSyncsOnlyNamed ==
    [][\A h \in Triggers :
         (request[h] \notin {NoName, NoRequest} /\ StepOf(h)) =>
            /\ \A n \in DOMAIN status \ {request[h]} : status'[n] = status[n]
            /\ \A n \in (DOMAIN db \cup DOMAIN db') \ {request[h]} :
                  n \in DOMAIN db /\ n \in DOMAIN db' /\ db'[n] = db[n]
            /\ sync_count' # sync_count => Target(h) = request[h]
            /\ pc'[h] = "respond" =>
                  \A i \in 1..Len(TriggerResults(h)') :
                      TriggerResults(h)'[i].table = request[h]]_vars

\* C15: at most one fetch_table call is in progress at any time.
C15_OneFetchAtATime ==
    Cardinality({ t \in SyncThreads : pc[t] = "fetch" }) <= 1

\* handler a is between taking its lock and returning
Holding(a) == hpc[a] \in {"held", "table", "rows"}

\* handler a returns in this step
Returns(a) == Holding(a) /\ hpc'[a] = "done"

\* C16: get, search, stats and list_tables hold the database lock in read
\* mode, so none of them excludes another reader.
C16_ReadOperationsShareLock ==
    \A a \in Handlers :
        (Holding(a) /\ hreq[a].op \in {"get", "search", "stats", "list_tables"}) =>
            (a \in dbReaders /\ dbWriter = NoThread)

\* sync thread t is between db.write() and the return of sync_table
InLockedSection(t) ==
    pc[t] \in {"drop", "create", "create_failed", "get", "get_failed", "insert", "status",
               "finish", "return"}

\* C17: the database lock is held only by operations in progress: a handler
\* that has not taken it or has returned (with success or with an error) and a
\* sync thread outside its locked section hold nothing, so with no operation
\* in progress the lock is free; and a writer is never joined by another
\* holder.
C17_LockReleasedOnEveryExit ==
    /\ \A a \in Handlers : ~Holding(a) => (dbWriter # a /\ a \notin dbReaders)
    /\ \A t \in SyncThreads : ~InLockedSection(t) => dbWriter # t
    /\ dbWriter # NoThread => dbReaders = {}
    /\ ((\A a \in Handlers : ~Holding(a)) /\ (\A t \in SyncThreads : ~InLockedSection(t)))
          => LockFree

\* an update has returned "row not found" and a sync_table "table not found
\* after creation", and the lock is free
C17_Witness ==
    /\ hpc["a1"] = "done"
    /\ hresp["a1"].error = "row not found"
    /\ pc["h1"] = "respond"
    /\ results["h1"][1].error = "table not found after creation"
    /\ LockFree

\* C18: a sync status request never takes the database lock: it is never
\* among the lock's holders, and in every state, also while a sync is in
\* fetch_table or holds the write lock, it can go on to its response.
C18_StatusTakesNoDbLock ==
    \A a \in Handlers :
        hreq[a].op = "sync_status" =>
            /\ dbWriter # a /\ a \notin dbReaders
            /\ hpc[a] = "sync" => ENABLED HSyncBegin(a)
            /\ hpc[a] = "wait" => ENABLED Acquire(a)
            /\ hpc[a] = "held" => ENABLED HSyncStatus(a)
            /\ hpc[a] = "running" => ENABLED HSyncRunning(a)
            /\ hpc[a] = "count" => ENABLED HSyncCount(a)

\* a status response was built while a sync held the write lock in the
\* middle of its rebuild, and it shows that table as syncing
C18_Witness ==
    /\ hpc["a1"] = "done"
    /\ hreq["a1"].op = "sync_status"
    /\ dbWriter = "h1"
    /\ pc["h1"] = "insert"
    /\ \E e \in hresp["a1"].sync.tables : e.syncing

\* insert_batch as one call: the table after it and the ids it returns
RECURSIVE InsertBatch(_, _, _)
InsertBatch(tbl, rows, ids) ==
    IF rows = <<>> THEN [tbl |-> tbl, ids |-> ids]
    ELSE InsertBatch(TableInsert(tbl, Head(rows)), Tail(rows),
                     IF InsertAccepts(tbl, Head(rows)) THEN Append(ids, tbl.next_id)
                     ELSE ids)

\* the deletes of one request as one call: the table after them, the count
RECURSIVE DeleteBatch(_, _, _)
DeleteBatch(tbl, ids, n) ==
    IF ids = <<>> THEN [tbl |-> tbl, n |-> n]
    ELSE DeleteBatch(TableDelete(tbl, Head(ids)), Tail(ids),
                     IF HasRow(tbl, Head(ids)) THEN n + 1 ELSE n)

\* a table request run at one instant on database d: the database after it
\* and its response
Serial(d, req) ==
    IF req.op \in TableOps /\ req.table \notin DOMAIN d
    THEN [db |-> d, resp |-> Resp(404, "table not found")]
    ELSE CASE req.op = "insert" ->
                LET b == InsertBatch(d[req.table], req.rows, <<>>)
                IN [db |-> [d EXCEPT ![req.table] = b.tbl],
                    resp |-> [Resp(200, "") EXCEPT !.ids = b.ids, !.count = Len(b.ids)]]
           [] req.op = "delete" ->
                LET b == DeleteBatch(d[req.table], req.ids, 0)
                IN [db |-> [d EXCEPT ![req.table] = b.tbl],
                    resp |-> [Resp(200, "") EXCEPT !.count = b.n]]
           [] req.op = "update" ->
                LET res == UpdateResult(d[req.table], req.id, req.values)
                IN [db |-> [d EXCEPT ![req.table] = TableUpdate(@, req.id, req.values)],
                    resp |-> CASE res = "Ok(true)" -> [Resp(200, "") EXCEPT !.data = "updated"]
                               [] res = "Ok(false)" -> Resp(404, "row not found")
                               [] OTHER -> Resp(400, "update rejected")]
           [] req.op = "get" ->
                [db |-> d,
                 resp |-> [Resp(200, "") EXCEPT !.rows = GetMany(d[req.table], req.ids)]]
           [] req.op = "search" ->
                LET tbl == d[req.table]
                    col == column_index(tbl, req.column)
                    st == SearchTypeOf(req)
                    found == TableSearch(tbl, col, st[2])
                    page == ApplyLimit(ApplyOffset(found, req.offset), req.limit)
                IN [db |-> d,
                    resp |-> IF col = 0 THEN Resp(400, "column not found")
                             ELSE IF ~IsOk(st) THEN Resp(400, st[2])
                             ELSE [Resp(200, "") EXCEPT !.rows = GetMany(tbl, page),
                                                       !.total = Len(found)]]
           [] req.op = "drop_table" ->
                IF req.table \in DOMAIN d
                THEN [db |-> DropTable(d, req.table),
                      resp |-> [Resp(200, "") EXCEPT !.data = "table dropped"]]
                ELSE [db |-> d, resp |-> Resp(404, "table not found")]
           [] req.op = "stats" ->
                [db |-> d, resp |-> [Resp(200, "") EXCEPT !.tables = stats(d)]]
           [] OTHER ->
                [db |-> d, resp |-> [Resp(200, "") EXCEPT !.tables = table_names(d)]]

\* C19: every table operation takes effect at one instant inside its own
\* duration: when its handler returns, the response and the database are what
\* the whole operation gives when run at once on the database as it was when
\* the handler took the lock, so no other request's rows or deletes, whole or
\* in part, come between its steps.
C19_OperationsAreAtomic ==
    [][\A a \in Handlers :
         (Returns(a) /\ hreq[a].op # "sync_status") =>
            /\ hresp'[a] = Serial(snap[a], hreq[a]).resp
            /\ db' = Serial(snap[a], hreq[a]).db]_vars

\* a search has found both matching rows and is about to fetch them while a
\* delete of one of them, received on the other connection, waits for the lock
C19_Witness ==
    /\ hpc["a1"] = "rows"
    /\ hacc["a1"].out = <<1, 2>>
    /\ hpc["a2"] = "wait"
    /\ hreq["a2"].op = "delete"

\* the RowIds of the live rows of the HTTP table
LiveIds(d) ==
    IF "items" \in DOMAIN d THEN { d["items"].rows[i].id : i \in 1..Len(d["items"].rows) }
    ELSE {}

\* C20: the RowIds successful inserts return are 1, 2, 3, ... in the order
\* they are assigned (so strictly increasing, none consumed by a rejected
\* row), an insert response lists its batch's ids in input order, every live
\* row carries an id that was returned, and a row never appears under an id
\* that was returned before, also after a delete.
C20_RowIdsMonotonicNeverReused ==
    /\ [](/\ \A i \in 1..Len(issued) : issued[i] = i
          /\ "items" \in DOMAIN db => db["items"].next_id = Len(issued) + 1
          /\ LiveIds(db) \subseteq { issued[i] : i \in 1..Len(issued) })
    /\ [][/\ \A n \in LiveIds(db') \ LiveIds(db) :
               \A i \in 1..Len(issued) : issued[i] # n
          /\ \A a \in Handlers :
               (Returns(a) /\ hreq[a].op = "insert" /\ hresp'[a].code = 200) =>
                  LET ids == hresp'[a].ids
                  IN ids = SubSeq(issued, Len(issued) - Len(ids) + 1, Len(issued))]_vars

\* the first row was deleted and a later batch has been given the ids 3 and
\* 4, its rejected row none
C20_Witness ==
    /\ issued = <<1, 2, 3, 4>>
    /\ LiveIds(db) = {2, 3, 4}
    /\ \E a \in Handlers : hpc[a] = "done" /\ hresp[a].ids = <<3, 4>>


\* C21: a search whose predicate matches the id list L, with offset o and
\* limit l (0 and unbounded when absent), returns the rows of L[o .. o+l) in
\* the order of L, nothing when o >= |L|, and reports the total |L| whatever
\* the offset and the limit.
C21_SearchPagination ==
    \A a \in Handlers :
        (hpc[a] = "done" /\ hreq[a].op = "search" /\ hresp[a].code = 200) =>
            LET tbl == snap[a][hreq[a].table]
                L == TableSearch(tbl, column_index(tbl, hreq[a].column),
                                 SearchTypeOf(hreq[a])[2])
                o == IF hreq[a].offset = NoNum THEN 0 ELSE hreq[a].offset
                left == IF o >= Len(L) THEN 0 ELSE Len(L) - o
                n == IF hreq[a].limit = NoNum \/ hreq[a].limit > left THEN left
                     ELSE hreq[a].limit
            IN /\ hresp[a].total = Len(L)
               /\ Len(hresp[a].rows) = n
               /\ \A i \in 1..n : hresp[a].rows[i] = RowOf(tbl, L[o + i])
               /\ o >= Len(L) => hresp[a].rows = <<>>

\* a search matching the rows 1, 3 and 4 with offset 1 and limit 1 returned
\* row 3 alone and the total 3
C21_Witness ==
    /\ hpc["a1"] = "done"
    /\ hreq["a1"].value = VInt(1)
    /\ hreq["a1"].offset = 1
    /\ hreq["a1"].limit = 1
    /\ hresp["a1"].total = 3
    /\ hresp["a1"].rows = << [id |-> 3, values |-> <<VInt(1), VStr("c")>>] >>

\* the lines of a response that are not blank, each as its tab-separated
\* fields
FieldsOfLines(response) ==
    LET blank(line) == trim(line) # <<>>
        kept == SelectSeq(split(response, "\n"), blank)
    IN [i \in 1..Len(kept) |-> split(trim(kept[i]), "\t")]

\* C22: with a non-empty column mapping, a non-empty line whose field count
\* is not the mapping's length makes parse_response fail with a Parse error;
\* with an empty mapping parse_response never fails and every field of every
\* line is a String value of the line's row.
C22_MismatchFailsUnlessUnmapped ==
    call.fn = "parse_response" =>
        LET lines == FieldsOfLines(call.args[1])
            columns == call.args[2].columns
        IN IF columns # <<>>
           THEN (\E i \in 1..Len(lines) : Len(lines[i]) # Len(columns)) =>
                    ~IsOk(call.result) /\ call.result[2].kind = "Parse"
           ELSE call.result =
                  Ok([i \in 1..Len(lines) |->
                        [j \in 1..Len(lines[i]) |-> VStr(Text(lines[i][j]))]])

\* C23: parse_value returns Null for the empty text and for the null
\* sentinel \N whatever the column type, and whatever it returns is Null or
\* of the column type's variant, so it satisfies type_matches for that type.
C23_ParseValueNullOrTyped ==
    call.fn = "parse_value" =>
        LET s == call.args[1]
            col_type == call.args[2]
        IN /\ (s = <<>> \/ s = <<"\\", "N">>) => call.result = VNull
           /\ call.result.tag \in {"Null", col_type}
           /\ type_matches(call.result, col_type)

\* the sentinel \N was parsed for a String column and came out Null
C23_Witness ==
    /\ call.fn = "parse_value"
    /\ call.args = << <<"\\", "N">>, "String" >>
    /\ call.result = VNull

\* the escaped form of a text, as ClickHouse writes it in a TSV field
RECURSIVE Escaped(_)
Escaped(s) ==
    IF s = <<>> THEN <<>>
    ELSE (CASE Head(s) = "\t" -> <<"\\", "t">>
            [] Head(s) = "\n" -> <<"\\", "n">>
            [] Head(s) = "\\" -> <<"\\", "\\">>
            [] OTHER -> <<Head(s)>>) \o Escaped(Tail(s))

\* C24: for a String column parse_value undoes the escapes \t, \n and \\:
\* for every non-empty text s over tab, newline, backslash and letters, the
\* escaped form of s parses to the String s.
C24_UnescapeInvertsEscape ==
    (call.fn = "parse_value" /\ call.args[2] = "String") =>
        \A n \in 1..MaxText : \A s \in [1..n -> {"\t", "\n", "\\", "b", "t", "n", "N"}] :
            Escaped(s) = call.args[1] => call.result = VStr(Text(s))

\* C28: build_query returns the query override as it is whenever one is set,
\* whatever the mapping; otherwise SELECT, the source column names in
\* mapping order joined by ", ", FROM and the source table, or
\* SELECT * FROM the source table when the mapping is empty.
C28_BuildQuery ==
    call.fn = "build_query" =>
        LET table == call.args[1]
            n == Len(table.columns)
            listed[k \in 1..n] ==
                IF k = 1 THEN table.columns[1].source_name
                ELSE listed[k - 1] \o ", " \o table.columns[k].source_name
        IN call.result =
             IF table.query_override # "none" THEN table.query_override
             ELSE IF n = 0 THEN "SELECT * FROM " \o table.source_table
             ELSE "SELECT " \o listed[n] \o " FROM " \o table.source_table

\* a query was built for a table with two mapped columns and an override,
\* and is the override
C28_Witness ==
    /\ call.fn = "build_query"
    /\ Len(call.args[1].columns) = 2
    /\ call.args[1].query_override = "SELECT 1"
    /\ call.result = "SELECT 1"

\* the ColumnType a type name stands for when letter case is set aside
TypeNamed(col_type) ==
    LET name == Text(to_lowercase(col_type))
    IN CASE name \in {"int", "integer", "i64"} -> "Int"
         [] name \in {"float", "double", "f64"} -> "Float"
         [] name \in {"string", "text", "varchar"} -> "String"
         [] name \in {"bytes", "blob", "binary"} -> "Bytes"
         [] OTHER -> "none"

\* C25: type names are matched without regard to case: int, integer, i64 are
\* Int; float, double, f64 Float; string, text, varchar String; bytes, blob,
\* binary Bytes.  A create_table request with a column of any other type
\* name is answered with the invalid-type error and creates no table (it
\* never reaches the lock); a request of known names is not turned down for
\* its types, and the table it creates has the columns' types as named.
C25_ColumnTypeNames ==
    [][\A a \in Handlers :
          hreq[a].op = "create_table" =>
              LET defs == hreq[a].columns
                  unknown == \E i \in 1..Len(defs) : TypeNamed(defs[i].col_type) = "none"
              IN IF unknown
                 THEN /\ db' = db
                      /\ hpc'[a] \notin {"wait", "held"}
                      /\ hpc'[a] = "done" => hresp'[a] = Resp(400, "invalid column type")
                 ELSE /\ hpc'[a] = "done" => hresp'[a].error # "invalid column type"
                      /\ (hpc'[a] = "done" /\ hresp'[a].code = 200) =>
                            db'[hreq[a].table].columns =
                               [i \in 1..Len(defs) |->
                                  Column(defs[i].name, TypeNamed(defs[i].col_type))]]_vars

\* a table whose column was declared VARCHAR has been created with a String
\* column
C25_Witness ==
    /\ hpc["a1"] = "done"
    /\ hreq["a1"].op = "create_table"
    /\ hreq["a1"].columns = <<ColumnDef("k", <<"V", "A", "R", "C", "H", "A", "R">>)>>
    /\ hresp["a1"].code = 200
    /\ db[hreq["a1"].table].columns = <<Column("k", "String")>>

\* C27: check_auth on a request without an Authorization header succeeds
\* exactly when the level requires no auth for the kind of operation (health,
\* write or read, as route_request passes them), and fails with 401
\* otherwise: None requires auth for nothing, Write for writes only, Read
\* for reads and writes, All for health too.  Requiring auth for health
\* implies requiring it for reads, and for reads implies for writes.
C27_CheckAuthWithoutHeader ==
    call.fn = "check_auth" =>
        LET header == call.args[1]
            level == call.args[2]
            is_write == call.args[3]
            is_health == call.args[4]
            kind == IF is_health THEN "health" ELSE IF is_write THEN "write" ELSE "read"
            required == CASE level = "None" -> FALSE
                          [] level = "Write" -> kind = "write"
                          [] level = "Read" -> kind \in {"read", "write"}
                          [] OTHER -> TRUE
        IN /\ (header = "absent" /\ ~(is_write /\ is_health)) =>
                 IF required THEN ~IsOk(call.result) /\ call.result[2][1] = 401
                 ELSE IsOk(call.result)
           /\ requires_auth_for_health(level) => requires_auth_for_read(level)
           /\ requires_auth_for_read(level) => requires_auth_for_write(level)

\* a write without a header was turned away with 401 at level Read
C27_Witness ==
    /\ call.fn = "check_auth"
    /\ call.args = <<"absent", "Read", TRUE, FALSE>>
    /\ call.result = Err(<<401, "authentication required">>)

\* C26: insert, search, get, delete and update naming a table the database
\* does not have end with the table-not-found error, and a search naming a
\* column its table does not have ends with the column-not-found error; the
\* handler's next step is that answer, and the database is as it was when
\* the handler took the lock (no table created, no row changed).
C26_MissingTableOrColumn ==
    [][\A a \in Handlers :
          LET req == hreq[a]
              noTable == /\ hpc[a] = "held"
                         /\ req.op \in TableOps
                         /\ req.table \notin DOMAIN db
              noColumn == /\ hpc[a] = "table"
                          /\ req.op = "search"
                          /\ column_index(db[req.table], req.column) = 0
          IN (noTable \/ noColumn) =>
                /\ db = snap[a]
                /\ db' = db
                /\ hpc'[a] \in {hpc[a], "done"}
                /\ hpc'[a] = "done" =>
                      hresp'[a] = IF noTable THEN Resp(404, "table not found")
                                  ELSE Resp(400, "column not found")]_vars

\* a search naming a column the table lacks was answered column-not-found
\* while the table held a row
C26_Witness ==
    /\ hpc["a1"] = "done"
    /\ hreq["a1"].op = "search"
    /\ hresp["a1"] = Resp(400, "column not found")
    /\ Len(db["items"].rows) > 0

\* sync thread t's sync_table has marked its target and not yet recorded the
\* outcome
Marked(t) == pc[t] \in {"fetch", "lock", "drop", "create", "get", "insert", "status"}

\* C29: from the first step of a sync_table call for a configured target
\* until the call records its outcome, and while no other sync of that
\* target is under way, the target's status shows syncing and no error,
\* also when the sync of that target before this one failed.
C29_SyncingWhileInProgress ==
    \A t \in SyncThreads :
        (/\ Marked(t)
         /\ \A u \in SyncThreads \ {t} : ~(InSyncTable(u) /\ Target(u) = Target(t))) =>
            /\ status[Target(t)].syncing
            /\ status[Target(t)].error = NoError

\* the second sync of users is fetching after the first one failed to fetch
\* (its outcome was recorded and the table was never created)
C29_Witness ==
    /\ started = 2
    /\ pc["h1"] = "fetch"
    /\ Target("h1") = "users"
    /\ "users" \notin DOMAIN db
    /\ status["users"].last_sync # NoInstant
    /\ status["users"].syncing
    /\ status["users"].error = NoError

\* the target tables the configuration names
ConfiguredTargets == { config.tables[i].target_table : i \in 1..Len(config.tables) }

\* table names no configured sync table targets
UnconfiguredTargets == {"items", "orders"}

\* C30: the status map has one entry per configured target table from
\* construction on, each starting with no last sync, 0 rows, no error and
\* not syncing; no step adds or removes an entry, the two status writes of
\* sync_table leave the map as it is for a target that has no entry, and an
\* entry changes only in a step of a sync_table on that target.
C30_StatusTablesFixed ==
    /\ status = [n \in ConfiguredTargets |-> SyncStatus(n)]
    /\ [](/\ DOMAIN status = ConfiguredTargets
          /\ \A n \in UnconfiguredTargets :
                /\ MarkSyncing(status, n) = status
                /\ \A rows \in 0..MaxRows, e \in {NoError, "connection error: refused"} :
                      update_status(status, n, rows, now, e) = status)
    /\ [][\A n \in DOMAIN status :
            status'[n] # status[n] =>
                \E t \in SyncThreads :
                    /\ InSyncTable(t)
                    /\ Target(t) = n
                    /\ pc'[t] # pc[t]]_vars

\* both configured tables have been synced, one with an error, and a later
\* sync of the first is under way: the entries changed, the tables did not
C30_Witness ==
    /\ DOMAIN status = {"users", "pairs"}
    /\ status["users"].syncing
    /\ status["pairs"].last_sync # NoInstant
    /\ status["pairs"].error # NoError
    /\ sync_count > 0

\* the background worker threads that have been spawned and have not ended
AliveWorkers == { w \in Workers : pc[w] # "idle" }

\* C31: on a manager with interval_secs > 0, whatever the order of
\* start_background_sync and stop calls, at most one background worker
\* thread is alive.
C31_AtMostOneWorker ==
    config.interval_secs > 0 => Cardinality(AliveWorkers) <= 1

\* C32: while sync_table calls for the same target overlap (a background
\* cycle and a manual trigger), the target's status shows syncing for as long
\* as at least one of them has marked it and not yet recorded its outcome.
C32_SyncingWhileAnyInProgress ==
    \A t \in SyncThreads : Marked(t) => status[Target(t)].syncing

\* a sync_table call for target n is under way on some thread
SyncInProgress(n) == \E t \in SyncThreads : InSyncTable(t) /\ Target(t) = n

\* C33: a configured target with no sync_table call under way has
\* syncing = false, and a sync_table call that returns with no other call
\* for its target under way leaves the flag false, whichever exit it takes
\* (fetch error, create failure, missing target table, success).
C33_NotSyncingWhenIdle ==
    /\ [](\A n \in DOMAIN status : ~SyncInProgress(n) => ~status[n].syncing)
    /\ [][\A t \in SyncThreads :
            (/\ InSyncTable(t)
             /\ Len(results'[t]) = Len(results[t]) + 1
             /\ \A u \in SyncThreads \ {t} : ~(InSyncTable(u) /\ Target(u) = Target(t))) =>
                ~status'[Target(t)].syncing]_vars

\* a manual sync is over whose first table failed for the missing target
\* table and whose second failed to fetch; neither is left syncing
C33_Witness ==
    \E h \in Triggers :
        /\ pc[h] = "respond"
        /\ Len(results[h]) = 2
        /\ results[h][1].error = "table not found after creation"
        /\ results[h][2].error = "connection error: refused"
        /\ ~status["users"].syncing
        /\ ~status["pairs"].syncing

\* thread t takes a step of its own
Steps(t) == pc'[t] # pc[t] \/ pos'[t] # pos[t] \/ idx'[t] # idx[t]

\* the pcs of a sync_table call after its first write to the database
Wrote(t) ==
    \/ pc[t] \in {"create", "create_failed", "insert", "status", "finish", "return"}
    \/ pc[t] = "get" /\ ClearWanted

\* thread t's sync_table returns a result with success = false in this step
ReturnsFailure(t) ==
    /\ InSyncTable(t)
    /\ Len(results'[t]) = Len(results[t]) + 1
    /\ ~results'[t][Len(results'[t])].success

\* C34: a sync_table call that returns success = false has not changed the
\* database: a step of the call that changes the database puts it past its
\* first write, where it stays until it returns, and a call returns failure
\* only before its first write and in a step that leaves every table,
\* the target included, as it is.
C34_FailureLeavesDatabase ==
    [][\A t \in SyncThreads :
          /\ (InSyncTable(t) /\ Steps(t) /\ db' # db) => Wrote(t)'
          /\ (Wrote(t) /\ InSyncTable(t)' /\ idx'[t] = idx[t]) => Wrote(t)'
          /\ ReturnsFailure(t) => (~Wrote(t) /\ db' = db)]_vars

\* the second manual sync failed to fetch users after the first one had
\* filled it: the rows of the first sync are still there
C34_Witness ==
    \E h \in Triggers :
        /\ started = 2
        /\ results[h] # <<>>
        /\ ~results[h][1].success
        /\ "users" \in DOMAIN db
        /\ db["users"].rows # <<>>

\* the pcs of a sync_table call before it asks for the database lock: the
\* status mark and the source I/O of fetch_table
BeforeLock(t) == pc[t] \in {"mark", "fetch", "lock"}

\* the pcs of the rebuild: drop, create, lookup, inserts, status, count, and
\* the return that drops the write guard
Rebuilding(t) ==
    pc[t] \in {"drop", "create", "create_failed", "get", "get_failed", "insert", "status",
               "finish", "return"}

\* the threads holding the database lock, in either mode
LockHolders == ({dbWriter} \ {NoThread}) \cup dbReaders

\* C35: a sync holds no database lock while it runs fetch_table; it holds
\* the write lock during its rebuild only, so that a handler waiting for the
\* database lock is kept waiting by a sync only when that sync is rebuilding.
C35_FetchOutsideLock ==
    /\ \A t \in SyncThreads :
          /\ BeforeLock(t) => t \notin LockHolders
          /\ t \in LockHolders => Rebuilding(t)
    /\ \A a \in Handlers :
          (hpc[a] = "wait" /\ ~ENABLED Acquire(a)) =>
              \E x \in LockHolders :
                  x \in Handlers \/ (x \in SyncThreads /\ Rebuilding(x))

\* a handler holds the database lock for writing while a manual sync is
\* waiting for the source
C35_Witness ==
    \E t \in SyncThreads, a \in Handlers :
        /\ pc[t] = "fetch"
        /\ hpc[a] = "held"
        /\ dbWriter = a

\* the threads that take locks
LockUsers == SyncThreads \cup Handlers

\* no thread holds the database lock or the status lock
NoLockHeld == LockHolders = {} /\ statusLock = {}

\* C36: the status lock and the database lock cannot deadlock: a holder of
\* the status lock holds no database lock and is not waiting for one, no
\* step takes the database lock while its thread holds the status lock, no
\* sync thread holds the status lock while it fetches or waits for the
\* database lock, and every thread that holds a lock gives it back (again
\* and again both locks are free).
C36_NoDeadlock ==
    /\ [](\A x \in statusLock :
             /\ x \notin LockHolders
             /\ x \in Handlers => hpc[x] # "wait"
             /\ x \in SyncThreads => ~BeforeLock(x))
    /\ [][\A x \in LockUsers :
             (x \in statusLock /\ x \notin LockHolders) => x \notin LockHolders']_vars
    /\ []<>NoLockHeld

\* a manual sync holds the database lock and is about to record its outcome
\* while a status read holds the status lock
C36_Witness ==
    \E t \in SyncThreads, a \in Handlers :
        /\ pc[t] = "status"
        /\ dbWriter = t
        /\ a \in statusLock

\* C37: at every auth level but None, route_request calls the handler of an
\* admin-only endpoint (sync trigger, sync configure, add user, remove user,
\* list users) only for a request carrying the valid credentials of an
\* admin, and answers every other request to them with 401 or 403.
C37_AdminEndpointsNeedAdmin ==
    (call.fn = "route_request" /\ call.args[3] # "None") =>
        IF call.args[2] = "Admin"
        THEN call.result = Ok(call.args[1])
        ELSE ~IsOk(call.result) /\ call.result[2][1] \in {401, 403}

\* C38: the last completion time of a target changes only in the step that
\* records a successful sync_table of that target; a sync that fails leaves
\* the recorded time, or its absence, in place.
C38_LastSyncOnlyOnSuccess ==
    [][\A n \in DOMAIN status :
          status'[n].last_sync # status[n].last_sync =>
              /\ status'[n].error = NoError
              /\ \E t \in SyncThreads : pc[t] = "status" /\ Target(t) = n /\ pc'[t] = "finish"]_vars

\* C39: with clear_before_sync = false sync_table neither drops nor creates
\* a table: every table keeps its columns and its rows, each fetched row
\* that fits is appended after the rows the target holds, so that a
\* successful sync ends with the fitting rows, in fetch order, at the end of
\* the target; and when the target does not exist the call returns a failure
\* recorded in the status, with sync_count and the database unchanged.
C39_AppendKeepsRows ==
    [][~config.clear_before_sync =>
          /\ DOMAIN db' = DOMAIN db
          /\ \A n \in DOMAIN db :
                /\ db'[n].columns = db[n].columns
                /\ Len(db'[n].rows) >= Len(db[n].rows)
                /\ SubSeq(db'[n].rows, 1, Len(db[n].rows)) = db[n].rows
          /\ \A t \in SyncThreads :
                /\ (pc[t] = "insert" /\ pos'[t] = pos[t] + 1) =>
                      LET row == fetched[t][pos[t] + 1]
                          tbl == db[Target(t)]
                      IN db'[Target(t)].rows =
                            IF RowFits(row, tbl.columns)
                            THEN tbl.rows \o << [id |-> tbl.next_id, values |-> row] >>
                            ELSE tbl.rows
                /\ (pc[t] = "return" /\ pc'[t] # "return") =>
                      LET rows == db[Target(t)].rows
                          fit == FittingRows(fetched[t], db[Target(t)].columns)
                      IN /\ Len(rows) >= Len(fit)
                         /\ \A i \in 1..Len(fit) :
                               rows[Len(rows) - Len(fit) + i].values = fit[i]
                         /\ Last(results'[t]).rows_synced = Len(fit)
                /\ (pc[t] = "get" /\ Target(t) \notin DOMAIN db /\ pc'[t] # "get") =>
                      /\ pc'[t] = "get_failed"
                      /\ status'[Target(t)].error = "table not found after creation"
                      /\ sync_count' = sync_count
                      /\ db' = db
                /\ (pc[t] = "get_failed" /\ pc'[t] # "get_failed") =>
                      /\ ~Last(results'[t]).success
                      /\ Last(results'[t]).error = "table not found after creation"
                      /\ sync_count' = sync_count
                      /\ db' = db]_vars

\* a manual sync is over: one of the two rows fetched for users was appended
\* after the row users held, and pairs, which did not exist, failed
C39_Witness ==
    \E h \in Triggers :
        /\ ~config.clear_before_sync
        /\ pc[h] = "respond"
        /\ results[h][1].success
        /\ results[h][1].rows_synced = 1
        /\ ~results[h][2].success
        /\ Len(db["users"].rows) = 2
        /\ db["users"].rows[1].values = <<VInt(7), VStr("z")>>
        /\ "pairs" \notin DOMAIN db
        /\ sync_count = 1

\* the lines of a response that have a character, as the source sent them
SentLines(response) ==
    LET sent(line) == line # <<>>
    IN SelectSeq(split(response, "\n"), sent)

\* C40: with a mapping of N > 0 columns, a response whose lines all have
\* exactly N tab-separated fields parses to one row per line, each of N
\* values in field order, an empty field in any position, the first and the
\* last included, being Null; the rows number as many as the lines.
C40_LinesOfNFieldsParse ==
    (call.fn = "parse_response" /\ call.args[2].columns # <<>>) =>
        LET lines == SentLines(call.args[1])
            columns == call.args[2].columns
            fields(i) == split(lines[i], "\t")
        IN (\A i \in 1..Len(lines) : Len(fields(i)) = Len(columns)) =>
              /\ IsOk(call.result)
              /\ Len(call.result[2]) = Len(lines)
              /\ \A i \in 1..Len(lines) :
                    /\ Len(call.result[2][i]) = Len(columns)
                    /\ \A k \in 1..Len(columns) :
                          /\ call.result[2][i][k] =
                                parse_value(fields(i)[k], columns[k].col_type)
                          /\ fields(i)[k] = <<>> => call.result[2][i][k] = VNull
====
